---- MODULE Spec2Model ----
(***************************************************************************)
(* Verification model of the supermusr data pipeline.                      *)
(*                                                                         *)
(* Part 1: the digitiser aggregator's FrameCache                           *)
(* (digitiser-aggregator/src/frame/{cache,partial,aggregated}.rs and       *)
(* digitiser-aggregator/src/data/event.rs).                                *)
(***************************************************************************)
EXTENDS Integers, Sequences, FiniteSets, TLC

\* ------------------------------------------------------------------------
\* Bounds of the model
\* ------------------------------------------------------------------------
MaxTimestamp == 2

MaxDigitiserId == 2

MaxExpectedId == 1

MaxVetoFlags == 2

MaxEvents == 2

MaxNow == 2

MaxPushes == 3

MaxContentPushes == 2

Ttl == 1

send_frame_buffer_size == 1

MaxThreshold == 1

MaxDuration == 2

MaxCoolOff == 2

MaxSampleTime == 2

MaxTraceLen == 5

MaxOrder == 3

MaxInputs == 4

MaxChannels == 2

\* ------------------------------------------------------------------------
\* Option<T>: None is the empty tuple, Some(x) the one-element tuple
\* ------------------------------------------------------------------------
None == <<>>

Some(x) == <<x>>

\* ------------------------------------------------------------------------
\* State
\* ------------------------------------------------------------------------
VARIABLES
    ttl,                          \* FrameCache::ttl
    expected_digitisers,          \* FrameCache::expected_digitisers
    latest_timestamp_dispatched,  \* FrameCache::latest_timestamp_dispatched
    frames,                       \* FrameCache::frames (VecDeque<PartialFrame>)
    now,                          \* the clock read by Instant::now()
    result,                       \* the last call on the cache and what it returned
    dispatched,                   \* history: timestamps of the frames returned by poll, in order
    accepted,                     \* history: (digitiser_id, frame identity) of every push that returned Ok
    contributions,                \* history: per frame identity, the pushes accepted since the frame was created
    pushes                        \* number of push calls made

cache_vars == <<ttl, expected_digitisers, latest_timestamp_dispatched, frames, now,
                result, dispatched, accepted, contributions, pushes>>

\* State of the NeXus writer
VARIABLES
    run_cache,                    \* NexusEngine::run_cache (VecDeque<Run>)
    topic_mode,                   \* subscription mode held by NexusEngine::kafka_topic_interface
    utc_now,                      \* the clock read by Utc::now()
    files,                        \* the NeXus files on disk, in creation order: directory, name, datasets
    engine_result,                \* the last call on the engine and what it returned
    written,                      \* history: per file, the event counts of the frame event lists written with Ok
    messages,                     \* number of messages handled by the engine
    main                          \* where main of the NeXus writer is: "loop", "failed" or "interrupted"

engine_vars == <<run_cache, topic_mode, utc_now, files, engine_result, written, messages, main>>

\* State of the digitiser aggregator's runtime: main, the producer task and the
\* channel between them
VARIABLES
    frame_channel,                \* the frames buffered in the mpsc channel, oldest first
    channel_closed,               \* Receiver::close has been called
    aggregator_main,              \* where main is: "select", "cache_poll", "reserve", "await_producer", "returned", "failed"
    pending,                      \* the frame cache_poll holds while reserve() is awaited
    producer_task,                \* where produce_to_kafka is: "select", "close_and_flush", "terminated"
    main_sigint,                  \* an interrupt waits in the Signal of main
    producer_sigint,              \* an interrupt waits in the Signal of the producer task
    channel_at_interrupt,         \* history: the content of the channel when the interrupt arrived
    produced                      \* history: the frames handed to the Kafka producer, in order

runtime_vars == <<frame_channel, channel_closed, aggregator_main, pending, producer_task,
                  main_sigint, producer_sigint, channel_at_interrupt, produced>>

\* State of the trace-to-events pipeline of one channel
VARIABLES
    detector,                     \* the detector (its fields), None before it is built
    sample_time,                  \* nanoseconds per sample of the trace
    trace,                        \* the samples of the channel fed so far, baseline-corrected and signed
    events,                       \* the events emitted so far, in emission order
    finished,                     \* the end of the trace was reached and finish() was called
    last_return                   \* history: the time of the sample at which the last event was emitted by signal

detector_vars == <<detector, sample_time, trace, events, finished, last_return>>

\* State of a FiniteDifferences window
VARIABLES
    window,                       \* the window (its fields), None before it is built
    inputs,                       \* history: the values pushed so far
    pushed,                       \* history: what the last push returned, None before any push
    yielded                       \* history: what output returned when called in this state, None if it was not

window_vars == <<window, inputs, pushed, yielded>>

\* State of process() of trace-to-events for one trace message
VARIABLES
    trace_message,                \* the trace message received, None before it arrives
    slots,                        \* per channel of the message: the result of its worker, None while it runs
    completed,                    \* history: the indices of the channels in the order their workers finished
    event_message                 \* the event list message built, None before it is

process_vars == <<trace_message, slots, completed, event_message>>

vars == <<cache_vars, engine_vars, runtime_vars, detector_vars, window_vars, process_vars>>

\* no trace message received yet
no_trace_message ==
    /\ trace_message = None
    /\ slots = <<>>
    /\ completed = <<>>
    /\ event_message = None

\* no window built yet
no_window ==
    /\ window = None
    /\ inputs = <<>>
    /\ pushed = None
    /\ yielded = None

\* no detector built yet, no sample read
no_detector ==
    /\ detector = None
    /\ sample_time = 1
    /\ trace = <<>>
    /\ events = <<>>
    /\ finished = FALSE
    /\ last_return = None

\* main of the aggregator after create_producer_task, about to enter its loop
create_producer_task ==
    /\ frame_channel = <<>>
    /\ channel_closed = FALSE
    /\ aggregator_main = "select"
    /\ pending = None
    /\ producer_task = "select"
    /\ main_sigint = FALSE
    /\ producer_sigint = FALSE
    /\ channel_at_interrupt = None
    /\ produced = <<>>

\* NexusEngine::new on an empty local directory, after main has subscribed in Full mode
NexusEngine_new ==
    /\ run_cache = <<>>
    /\ topic_mode = "Full"
    /\ utc_now = 0
    /\ files = <<>>
    /\ engine_result = [op |-> "new", ret |-> "", arg |-> <<>>]
    /\ written = <<>>
    /\ messages = 0

\* ------------------------------------------------------------------------
\* Pure functions
\* ------------------------------------------------------------------------

\* u16 bitwise or
RECURSIVE BitOr(_, _)
BitOr(a, b) ==
    IF a = 0 THEN b
    ELSE IF b = 0 THEN a
    ELSE (IF a % 2 = 1 \/ b % 2 = 1 THEN 1 ELSE 0) + 2 * BitOr(a \div 2, b \div 2)

\* FrameMetadata::equals_ignoring_veto_flags
equals_ignoring_veto_flags(a, b) ==
    /\ a.timestamp = b.timestamp
    /\ a.period_number = b.period_number
    /\ a.protons_per_pulse = b.protons_per_pulse
    /\ a.running = b.running
    /\ a.frame_number = b.frame_number

\* EventData::dummy_data: events_per_channel events for every channel of channels
RECURSIVE dummy_data(_, _, _)
dummy_data(time_offset, events_per_channel, channels) ==
    IF channels = <<>>
    THEN [time |-> <<>>, intensity |-> <<>>, channel |-> <<>>]
    ELSE LET rest == dummy_data(time_offset, events_per_channel, Tail(channels))
         IN  [time      |-> [i \in 1..events_per_channel |-> time_offset + i - 1] \o rest.time,
              intensity |-> [i \in 1..events_per_channel |-> time_offset] \o rest.intensity,
              channel   |-> [i \in 1..events_per_channel |-> Head(channels)] \o rest.channel]

\* EventData::event_count
event_count(data) == Len(data.time)

\* PartialFrame::new
PartialFrame_new(ttl_, metadata, instant) ==
    [complete       |-> FALSE,
     expiry         |-> instant + ttl_,
     metadata       |-> metadata,
     digitiser_data |-> <<>>]

\* PartialFrame::digitiser_ids
digitiser_ids(frame) ==
    SortSeq([i \in 1..Len(frame.digitiser_data) |-> frame.digitiser_data[i][1]],
            LAMBDA a, b : a < b)

\* PartialFrame::set_completion_status
set_completion_status(frame, expected) ==
    IF digitiser_ids(frame) = expected
    THEN [frame EXCEPT !.complete = TRUE]
    ELSE frame

\* PartialFrame::has_digitiser_id
has_digitiser_id(frame, did) ==
    \E i \in 1..Len(frame.digitiser_data) : did = frame.digitiser_data[i][1]

\* a variant of PartialFrame::push that inserts the contribution at the front
PartialFrame_push_front(frame, digitiser_id, data) ==
    [frame EXCEPT !.digitiser_data = <<<<digitiser_id, data>>>> \o @]

\* PartialFrame::push
PartialFrame_push(frame, digitiser_id, data) ==
    [frame EXCEPT !.digitiser_data = Append(@, <<digitiser_id, data>>)]

\* a variant of PartialFrame::push_veto_flags that overwrites the flags
push_veto_flags_overwrite(frame, veto_flags) ==
    [frame EXCEPT !.metadata.veto_flags = veto_flags]

\* PartialFrame::push_veto_flags
push_veto_flags(frame, veto_flags) ==
    [frame EXCEPT !.metadata.veto_flags = BitOr(@, veto_flags)]

\* PartialFrame::is_complete
is_complete(frame) == frame.complete

\* a variant of PartialFrame::is_expired that counts the expiry instant as expired
is_expired_inclusive(frame, instant) == instant >= frame.expiry

\* PartialFrame::is_expired
is_expired(frame, instant) == instant > frame.expiry

\* <DigitiserData<EventData> as Accumulate<EventData>>::accumulate
RECURSIVE accumulate(_)
accumulate(data) ==
    IF data = <<>>
    THEN [time |-> <<>>, intensity |-> <<>>, channel |-> <<>>]
    ELSE LET acc   == accumulate(SubSeq(data, 1, Len(data) - 1))
             value == data[Len(data)]
         IN  [time      |-> acc.time \o value[2].time,
              intensity |-> acc.intensity \o value[2].intensity,
              channel   |-> acc.channel \o value[2].channel]

\* From<PartialFrame<D>> for AggregatedFrame<D>
AggregatedFrame_from(partial) ==
    [metadata       |-> partial.metadata,
     complete       |-> is_complete(partial),
     digitiser_ids  |-> digitiser_ids(partial),
     digitiser_data |-> accumulate(partial.digitiser_data)]

\* ------------------------------------------------------------------------
\* Inputs
\* ------------------------------------------------------------------------

\* the expected digitiser lists: [0], [0, 1], ... up to MaxExpectedId
\* (increasing and without duplicates, as FrameCache::new requires)
ExpectedChoices == { [i \in 1..n |-> i - 1] : n \in 1..(MaxExpectedId + 1) }

\* metadata of the messages of the frame-ordering workload: frames that differ
\* in timestamp, one value of the veto flags
MetadataSet ==
    [timestamp         : 1..MaxTimestamp,
     period_number     : {1},
     protons_per_pulse : {8},
     running           : {TRUE},
     frame_number      : {1728},
     veto_flags        : {4}]

\* metadata of the messages of the frame-content workload: one frame identity,
\* messages that differ in their veto flags
ContentMetadataSet ==
    [timestamp         : {1},
     period_number     : {1},
     protons_per_pulse : {8},
     running           : {TRUE},
     frame_number      : {1728},
     veto_flags        : 1..MaxVetoFlags]

DigitiserIdSet == 0..MaxDigitiserId

\* event lists of the frame-ordering workload
OneEventData == { dummy_data(0, 1, <<0>>) }

\* event lists of the frame-content workload: lists of different lengths and values
EventDataSet == { dummy_data(n, n, <<n>>) : n \in 1..MaxEvents }

\* the identity of a frame: its metadata without the veto flags
FrameKey(metadata) == [metadata EXCEPT !.veto_flags = 0]

KeySet == { FrameKey(m) : m \in MetadataSet \cup ContentMetadataSet }

NoResult == [op |-> "new", ret |-> "", arg |-> <<>>, out |-> None]

\* ------------------------------------------------------------------------
\* FrameCache::new
\* ------------------------------------------------------------------------
Init ==
    /\ ttl = Ttl
    /\ expected_digitisers \in ExpectedChoices
    /\ latest_timestamp_dispatched = None
    /\ frames = <<>>
    /\ now = 0
    /\ result = NoResult
    /\ dispatched = <<>>
    /\ accepted = {}
    /\ contributions = [k \in KeySet |-> <<>>]
    /\ pushes = 0
    /\ NexusEngine_new
    /\ main = "loop"
    /\ create_producer_task
    /\ no_detector
    /\ no_window
    /\ no_trace_message

\* index of the first frame whose metadata matches, 0 if there is none
\* (frames.iter_mut().find(..) in FrameCache::push)
find(metadata) ==
    LET matching == { i \in 1..Len(frames) :
                        equals_ignoring_veto_flags(frames[i].metadata, metadata) }
    IN  IF matching = {} THEN 0
        ELSE CHOOSE i \in matching : \A j \in matching : i <= j

\* a variant of the guard that lets a message at the dispatched timestamp through
timestamp_too_early_strict(metadata) ==
    /\ latest_timestamp_dispatched # None
    /\ metadata.timestamp < latest_timestamp_dispatched[1]

\* FrameCache::push, the guard on the timestamp of the last frame dispatched
timestamp_too_early(metadata) ==
    /\ latest_timestamp_dispatched # None
    /\ metadata.timestamp <= latest_timestamp_dispatched[1]

\* a variant of the arm that adds the contribution to the frame before it looks
\* for the digitiser id
push_existing_frame_push_first(frame, digitiser_id, metadata, data) ==
    IF has_digitiser_id(frame, digitiser_id)
    THEN [ret   |-> "IdAlreadyPresent",
          frame |-> set_completion_status(
                        PartialFrame_push(frame, digitiser_id, data),
                        expected_digitisers)]
    ELSE [ret   |-> "Ok",
          frame |-> set_completion_status(
                        push_veto_flags(PartialFrame_push(frame, digitiser_id, data),
                                        metadata.veto_flags),
                        expected_digitisers)]

\* FrameCache::push, the arm of a frame found in the cache:
\* the value returned and the frame as the arm leaves it
push_existing_frame(frame, digitiser_id, metadata, data) ==
    IF has_digitiser_id(frame, digitiser_id)
    THEN [ret |-> "IdAlreadyPresent", frame |-> frame]
    ELSE [ret   |-> "Ok",
          frame |-> set_completion_status(
                        push_veto_flags(PartialFrame_push(frame, digitiser_id, data),
                                        metadata.veto_flags),
                        expected_digitisers)]

\* FrameCache::push, the arm of a frame not found in the cache: the frame created
push_new_frame(digitiser_id, metadata, data) ==
    PartialFrame_push(PartialFrame_new(ttl, metadata, now), digitiser_id, data)

PushResult(ret, digitiser_id, metadata) ==
    [op |-> "push", ret |-> ret, arg |-> <<digitiser_id, metadata>>, out |-> None]

\* FrameCache::push
push(digitiser_id, metadata, data) ==
    LET idx     == find(metadata)
        outcome ==
            IF timestamp_too_early(metadata)
            THEN [ret |-> "TimestampTooEarly", frames |-> frames]
            ELSE IF idx # 0
            THEN LET r == push_existing_frame(frames[idx], digitiser_id, metadata, data)
                 IN  [ret |-> r.ret, frames |-> [frames EXCEPT ![idx] = r.frame]]
            ELSE [ret    |-> "Ok",
                  frames |-> Append(frames, push_new_frame(digitiser_id, metadata, data))]
    IN  /\ frames' = outcome.frames
        /\ result' = PushResult(outcome.ret, digitiser_id, metadata)
        /\ pushes' = pushes + 1
        /\ IF outcome.ret = "Ok"
           THEN /\ accepted' = accepted \cup {<<digitiser_id, FrameKey(metadata)>>}
                /\ contributions' = [contributions EXCEPT ![FrameKey(metadata)] =
                        Append(@, [digitiser_id |-> digitiser_id,
                                   veto_flags   |-> metadata.veto_flags,
                                   data         |-> data])]
           ELSE UNCHANGED <<accepted, contributions>>
        /\ UNCHANGED <<ttl, expected_digitisers, latest_timestamp_dispatched, now, dispatched>>

\* a variant of the test that looks for a ready frame anywhere in the cache
poll_ready_any_frame ==
    \E i \in DOMAIN frames : is_complete(frames[i]) \/ is_expired(frames[i], now)

\* a variant of the test that never lets a frame expire
poll_ready_complete_only ==
    /\ frames # <<>>
    /\ is_complete(Head(frames))

\* FrameCache::poll, the test of the front of the cache
poll_ready ==
    /\ frames # <<>>
    /\ (is_complete(Head(frames)) \/ is_expired(Head(frames), now))

\* FrameCache::poll
poll ==
    /\ UNCHANGED <<ttl, expected_digitisers, now, accepted, pushes>>
    /\ IF poll_ready
       THEN LET frame == Head(frames) IN
            /\ frames' = Tail(frames)
            /\ latest_timestamp_dispatched' = Some(frame.metadata.timestamp)
            /\ result' = [op |-> "poll", ret |-> "Some", arg |-> <<>>,
                          out |-> Some(AggregatedFrame_from(frame))]
            /\ dispatched' = Append(dispatched, frame.metadata.timestamp)
            /\ contributions' = [contributions EXCEPT ![FrameKey(frame.metadata)] = <<>>]
       ELSE /\ result' = [op |-> "poll", ret |-> "None", arg |-> <<>>, out |-> None]
            /\ UNCHANGED <<frames, latest_timestamp_dispatched, dispatched, contributions>>

\* ------------------------------------------------------------------------
\* Actions
\* ------------------------------------------------------------------------
\* a digitiser message of the frame-ordering workload is pushed
Push ==
    /\ pushes < MaxPushes
    /\ \E digitiser_id \in DigitiserIdSet, metadata \in MetadataSet, data \in OneEventData :
          push(digitiser_id, metadata, data)
    /\ UNCHANGED <<engine_vars, runtime_vars, detector_vars, window_vars, process_vars>>

\* a digitiser message of the frame-content workload is pushed
PushContent ==
    /\ pushes < MaxContentPushes
    /\ \E digitiser_id \in DigitiserIdSet, metadata \in ContentMetadataSet, data \in EventDataSet :
          push(digitiser_id, metadata, data)
    /\ UNCHANGED <<engine_vars, runtime_vars, detector_vars, window_vars, process_vars>>

Poll == poll /\ UNCHANGED <<engine_vars, runtime_vars, detector_vars, window_vars, process_vars>>

\* the clock advances
Tick ==
    /\ now < MaxNow
    /\ now' = now + 1
    /\ result' = [op |-> "tick", ret |-> "", arg |-> <<>>, out |-> None]
    /\ UNCHANGED <<ttl, expected_digitisers, latest_timestamp_dispatched, frames,
                   dispatched, accepted, contributions, pushes>>
    /\ UNCHANGED <<engine_vars, runtime_vars, detector_vars, window_vars, process_vars>>

Next == Push \/ Poll \/ Tick

Spec == Init /\ [][Next]_vars

NextContent == PushContent \/ Poll \/ Tick

SpecContent == Init /\ [][NextContent]_vars

\* ------------------------------------------------------------------------
\* Properties of the FrameCache
\* ------------------------------------------------------------------------

\* the step is a call of push / a call of poll that returned a frame
PushStep == result'.op = "push" /\ pushes' = pushes + 1

PollSomeStep == result'.op = "poll" /\ result'.ret = "Some" /\ frames' # frames

\* C1: every frame returned by poll has a timestamp strictly greater than the
\* timestamp of every frame returned by an earlier poll.
C1_DispatchedStrictlyIncreasing ==
    \A i, j \in DOMAIN dispatched : i < j => dispatched[i] < dispatched[j]

\* C2: for each pair (frame identity ignoring veto_flags, digitiser_id) at most
\* one push returns Ok: a push that returns Ok is the first accepted push of its pair.
C2_AtMostOneAcceptedPushPerPair ==
    [][(PushStep /\ result'.ret = "Ok")
         => <<result'.arg[1], FrameKey(result'.arg[2])>> \notin accepted]_vars

\* C3: with T the timestamp of the frame most recently dispatched by poll, a push
\* whose timestamp is T or less returns TimestampTooEarly and the number of partial
\* frames does not grow; a push whose timestamp is greater than T is not rejected
\* as too early.
C3_TooEarlyBoundary ==
    [][(PushStep /\ dispatched # <<>>)
         => LET T  == dispatched[Len(dispatched)]
                ts == result'.arg[2].timestamp
            IN  /\ ts <= T => /\ result'.ret = "TimestampTooEarly"
                              /\ Len(frames') <= Len(frames)
                /\ ts > T  => result'.ret # "TimestampTooEarly"]_vars

\* C3 witness: a push at exactly the timestamp of the last dispatched frame was
\* rejected while the cache holds a frame
C3_Witness ==
    /\ result.op = "push"
    /\ result.ret = "TimestampTooEarly"
    /\ dispatched # <<>>
    /\ result.arg[2].timestamp = dispatched[Len(dispatched)]
    /\ frames # <<>>

\* C4: after every successful push, the complete flag of each partial frame is
\* true if and only if its sorted contributed digitiser ids equal the expected list.
C4_CompleteIffIdsEqualExpected ==
    (result.op = "push" /\ result.ret = "Ok")
        => \A i \in DOMAIN frames :
              frames[i].complete <=> (digitiser_ids(frames[i]) = expected_digitisers)

\* C5: every frame returned by poll with complete = true has a digitiser id list
\* that, sorted, equals the expected digitiser list exactly.
C5_CompleteFrameHasExactlyExpectedIds ==
    (result.op = "poll" /\ result.ret = "Some" /\ result.out[1].complete)
        => SortSeq(result.out[1].digitiser_ids, LAMBDA a, b : a < b) = expected_digitisers

\* C6: every partial frame held in the cache has a timestamp strictly greater
\* than latest_timestamp_dispatched, when that is set.
C6_CachedFramesAfterLatestDispatched ==
    latest_timestamp_dispatched # None
        => \A i \in DOMAIN frames :
              frames[i].metadata.timestamp > latest_timestamp_dispatched[1]

\* C7 as stated: an incomplete front frame polled at a time exactly equal to its
\* expiry is dispatched by that poll.
C7_DispatchedAtExactlyExpiry ==
    [][(/\ result'.op = "poll"
        /\ frames # <<>>
        /\ ~ Head(frames).complete
        /\ now = Head(frames).expiry)
         => /\ result'.ret = "Some"
            /\ frames' = Tail(frames)]_vars

\* C7 as amended: an incomplete front frame polled at a time exactly equal to its
\* expiry is not expired and stays in the cache; a poll dispatches it exactly
\* when the time is strictly greater than its expiry.
C7_DispatchedOnlyAfterExpiry ==
    [][(/\ result'.op = "poll"
        /\ frames # <<>>
        /\ ~ Head(frames).complete)
         => IF now > Head(frames).expiry
            THEN /\ result'.ret = "Some"
                 /\ result'.out[1].metadata = Head(frames).metadata
                 /\ frames' = Tail(frames)
            ELSE /\ result'.ret = "None"
                 /\ frames' = frames]_vars

\* C7 witness: poll at exactly the expiry of an incomplete front frame returned None
C7_Witness ==
    /\ result.op = "poll"
    /\ result.ret = "None"
    /\ frames # <<>>
    /\ ~ Head(frames).complete
    /\ now = Head(frames).expiry

\* C8: a push that returns an error leaves the cache unchanged: the same partial
\* frames in the same order with the same contributions, veto flags and complete
\* flags, and the same latest_timestamp_dispatched.
C8_RejectedPushChangesNothing ==
    [][(PushStep /\ result'.ret \in {"TimestampTooEarly", "IdAlreadyPresent"})
         => /\ frames' = frames
            /\ latest_timestamp_dispatched' = latest_timestamp_dispatched
            /\ expected_digitisers' = expected_digitisers
            /\ ttl' = ttl]_vars

\* C8 witness: a push was rejected as IdAlreadyPresent while the cache holds two frames
C8_Witness ==
    /\ result.op = "push"
    /\ result.ret = "IdAlreadyPresent"
    /\ Len(frames) >= 2

\* concatenation of one field of the event lists of a sequence of accepted pushes
RECURSIVE ConcatField(_, _)
ConcatField(cs, field) ==
    IF cs = <<>> THEN <<>>
    ELSE Head(cs).data[field] \o ConcatField(Tail(cs), field)

RECURSIVE SumEventCounts(_)
SumEventCounts(cs) ==
    IF cs = <<>> THEN 0
    ELSE event_count(Head(cs).data) + SumEventCounts(Tail(cs))

\* C9: the time, intensity and channel vectors of a frame returned by poll are the
\* concatenations, in the order the contributions were accepted, of the vectors of
\* the contributions; the three have the same length, the sum of the contribution
\* lengths; the digitiser id list is the contributing ids sorted ascending.
C9_AggregatedFrameIsConcatenation ==
    [][PollSomeStep
         => LET a  == result'.out[1]
                cs == contributions[FrameKey(a.metadata)]
            IN  /\ a.digitiser_data.time = ConcatField(cs, "time")
                /\ a.digitiser_data.intensity = ConcatField(cs, "intensity")
                /\ a.digitiser_data.channel = ConcatField(cs, "channel")
                /\ Len(a.digitiser_data.time) = SumEventCounts(cs)
                /\ Len(a.digitiser_data.intensity) = SumEventCounts(cs)
                /\ Len(a.digitiser_data.channel) = SumEventCounts(cs)
                /\ Len(a.digitiser_ids) = Len(cs)
                /\ { a.digitiser_ids[i] : i \in DOMAIN a.digitiser_ids }
                      = { cs[i].digitiser_id : i \in DOMAIN cs }
                /\ \A i, j \in DOMAIN a.digitiser_ids :
                      i < j => a.digitiser_ids[i] <= a.digitiser_ids[j]]_vars

\* C9 witness: poll returned a frame of two contributions whose event lists have
\* different lengths, the longer one accepted first
C9_Witness ==
    /\ result.op = "poll"
    /\ result.ret = "Some"
    /\ result.out[1].digitiser_ids = <<0, 1>>
    /\ result.out[1].digitiser_data.time = <<2, 3, 1>>
    /\ result.out[1].digitiser_data.intensity = <<2, 2, 1>>
    /\ result.out[1].digitiser_data.channel = <<2, 2, 1>>

\* the set of the bits that are set in a u16
Bits(n) == { i \in 0..15 : (n \div (2 ^ i)) % 2 = 1 }

\* C10: a push whose metadata differs from that of a cached frame only in
\* veto_flags goes into that frame (no frame is added), and the veto_flags of the
\* frame returned by poll are the bitwise OR of the veto_flags of all the
\* contributions accepted into it.
C10_VetoFlagsAreOrOfContributions ==
    [][/\ (PushStep /\ result'.ret = "Ok"
             /\ \E i \in DOMAIN frames :
                   FrameKey(frames[i].metadata) = FrameKey(result'.arg[2]))
           => Len(frames') = Len(frames)
       /\ PollSomeStep
           => LET a  == result'.out[1]
                  cs == contributions[FrameKey(a.metadata)]
              IN  Bits(a.metadata.veto_flags)
                     = UNION { Bits(cs[i].veto_flags) : i \in DOMAIN cs }]_vars

\* C10 witness: poll returned a frame of two contributions whose veto_flags differ
C10_Witness ==
    /\ result.op = "poll"
    /\ result.ret = "Some"
    /\ Len(result.out[1].digitiser_ids) = 2
    /\ result.out[1].metadata.veto_flags = 3
    /\ result.out[1].digitiser_data.channel = <<2, 2, 1>>

MaxTime == 2
\* Utc::now() is 0..MaxUtc
MaxUtc == 1
\* run names and file names are 1..MaxRunName
MaxRunName == 2
\* number of messages handled by the engine
MaxMessages == 4
\* number of events of a frame event list of the event-data workload
MaxFrameEvents == 2
\* the delay main passes to flush (cache_run_ttl_ms)
run_ttl == 0

TimeSet == 0..MaxTime

RunNameSet == 1..MaxRunName

\* RunStart messages whose filename is the run name
RunStartSet ==
    { [start_time |-> t, run_name |-> n, filename |-> n] : t \in TimeSet, n \in RunNameSet }

\* what fails while a RunStart is handled: the end-time write of the abort, the
\* creation of the new file, or the subscription
RunStartFaultSet == {"none", "abort", "new_run", "kafka"}

\* RunStart messages with any filename
RunStartFileSet == [start_time : TimeSet, run_name : RunNameSet, filename : RunNameSet]

RunStopSet == [stop_time : TimeSet]

\* FrameAssembledEventListMessage
FrameMessage(timestamp, period_number, voltage, time, channel) ==
    [metadata |-> [timestamp |-> timestamp, period_number |-> period_number,
                   protons_per_pulse |-> 0, running |-> FALSE, frame_number |-> 0,
                   veto_flags |-> 0],
     complete |-> TRUE, voltage |-> voltage, time |-> time, channel |-> channel]

\* frame event lists of the run-matching workload: one event each, any timestamp
FrameMessageSet ==
    { FrameMessage(t, 0, Some(<<1>>), Some(<<1>>), Some(<<1>>)) : t \in TimeSet }

\* the dataset whose append fails while a frame event list is written
FaultSet == {"none", "event_time_zero"}

\* the per-event vector of a frame event list with n events
EventVector(n) == [i \in 1..n |-> i]

\* frame event lists of the event-data workload: 0..MaxFrameEvents events with the
\* three vectors of equal length, as the aggregator builds them, or a vector absent;
\* the timestamp is the latest one, in range of every run started before it
FrameContentSet ==
    { FrameMessage(MaxTime, 0, Some(EventVector(n)), Some(EventVector(n)),
                   Some(EventVector(n))) : n \in 0..MaxFrameEvents }
    \cup { FrameMessage(MaxTime, 0, None, Some(EventVector(1)), Some(EventVector(1))) }

\* every dataset whose append can fail while a frame event list is written
EventFaultSet ==
    {"none", "event_index", "event_time_zero", "pulse_height", "event_time_offset",
     "event_id"}

\* ------------------------------------------------------------------------
\* NeXus writer: the file
\* ------------------------------------------------------------------------
\* a date and time as the text stored in a dataset or attribute; the empty text is <<>>
format_datetime(t) == <<t>>

\* the date and time parsed from a stored text, None if the text is not one
get_datetime(text) == IF Len(text) = 1 THEN Some(text[1]) ELSE None

\* the file just built in the local temporary directory
\* (Entry::build_group_structure, EventData::build_group_structure)
build_new_file(file_name) ==
    [dir |-> "temp", file_name |-> file_name,
     start_time |-> <<>>, end_time |-> <<>>, name |-> 0, periods |-> <<>>,
     offset |-> <<>>,
     event_index |-> <<>>, event_time_zero |-> <<>>, period_number |-> <<>>,
     frame_number |-> <<>>, frame_complete |-> <<>>, running |-> <<>>,
     veto_flags |-> <<>>,
     pulse_height |-> <<>>, event_time_offset |-> <<>>, event_id |-> <<>>,
     run_log_time |-> <<>>]

\* the handle of a file just built: the file and the counters of its EventData
new_handle(id) == [id |-> id, num_messages |-> 0, num_events |-> 0, offset |-> None]

\* index in the files fs of the file stored as dir/file_name, 0 if there is none
path(fs, dir, file_name) ==
    LET found == { i \in DOMAIN fs : fs[i].dir = dir /\ fs[i].file_name = file_name }
    IN  IF found = {} THEN 0 ELSE CHOOSE i \in found : TRUE

\* Entry and EventData handling InitialiseNewNexusStructure
InitialiseNewNexusStructure(file, parameters) ==
    [file EXCEPT !.start_time = format_datetime(parameters.collect_from),
                 !.end_time = <<>>,
                 !.name = parameters.run_name,
                 !.offset = format_datetime(parameters.collect_from)]

\* nanoseconds in a millisecond
NanosPerMilli == 1000000

\* nanoseconds in a second
NanosPerSecond == 1000000000

\* DateTime::timestamp_nanos_opt of a date and time kept in milliseconds
timestamp_nanos_opt(datetime) == NanosPerMilli * datetime

\* the time Log appends for InternallyGeneratedLog::AbortRun: the f64 quotient
\* is kept as its numerator in nanoseconds and its denominator
AbortRun_time(origin, stop_time_ms) ==
    [numerator |-> NanosPerMilli * stop_time_ms - timestamp_nanos_opt(origin),
     denominator |-> NanosPerSecond]

\* Entry, the run logs and Log handling PushInternallyGeneratedLogWarning with
\* InternallyGeneratedLog::AbortRun
PushAbortRunLogWarning(file, origin, stop_time_ms) ==
    [file EXCEPT !.run_log_time = Append(@, AbortRun_time(origin, stop_time_ms))]

\* Entry handling SetEndTime
SetEndTime(file, end_time) == [file EXCEPT !.end_time = format_datetime(end_time)]

\* Period handling UpdatePeriodList
UpdatePeriodList(file, periods) == [file EXCEPT !.periods = periods]

\* EventData::get_time_zero: the time since the offset, None when the offset is
\* absent or the difference does not fit an unsigned integer
get_time_zero(handle, message) ==
    IF handle.offset = None
    THEN None
    ELSE IF message.metadata.timestamp < handle.offset[1]
         THEN None
         ELSE Some(message.metadata.timestamp - handle.offset[1])

\* mutant of EventData_PushFrameEventList: event_index receives the event count
\* after the frame instead of the count before it
EventData_PushFrameEventList_index_after(handle, file, message, fault) ==
    LET time_zero == get_time_zero(handle, message)
        total_events == handle.num_events + Len(message.channel[1])
        f5 == [file EXCEPT !.event_index = Append(@, total_events),
                           !.event_time_zero = Append(@, time_zero[1]),
                           !.period_number = Append(@, message.metadata.period_number),
                           !.frame_number = Append(@, message.metadata.frame_number),
                           !.frame_complete = Append(@, message.complete),
                           !.running = Append(@, message.metadata.running),
                           !.veto_flags = Append(@, message.metadata.veto_flags),
                           !.pulse_height = @ \o message.voltage[1],
                           !.event_time_offset = @ \o message.time[1],
                           !.event_id = @ \o message.channel[1]]
    IN  IF fault # "none" \/ time_zero = None
           \/ message.voltage = None \/ message.time = None \/ message.channel = None
        THEN [ret |-> "HDF5", handle |-> handle, file |-> file]
        ELSE [ret |-> "Ok",
              handle |-> [handle EXCEPT !.num_events = total_events,
                                        !.num_messages = @ + 1],
              file |-> f5]

\* EventData handling PushFrameEventList; fault names the dataset whose append fails
EventData_PushFrameEventList(handle, file, message, fault) ==
    LET time_zero == get_time_zero(handle, message)
        f1 == [file EXCEPT !.event_index = Append(@, handle.num_events)]
        f2 == [f1 EXCEPT !.event_time_zero = Append(@, time_zero[1]),
                         !.period_number = Append(@, message.metadata.period_number),
                         !.frame_number = Append(@, message.metadata.frame_number),
                         !.frame_complete = Append(@, message.complete),
                         !.running = Append(@, message.metadata.running),
                         !.veto_flags = Append(@, message.metadata.veto_flags)]
        f3 == [f2 EXCEPT !.pulse_height = @ \o message.voltage[1]]
        f4 == [f3 EXCEPT !.event_time_offset = @ \o message.time[1]]
        f5 == [f4 EXCEPT !.event_id = @ \o message.channel[1]]
        total_events == handle.num_events + Len(message.channel[1])
        Err(f) == [ret |-> "HDF5", handle |-> handle, file |-> f]
    IN  IF fault = "event_index" THEN Err(file)
        ELSE IF fault = "event_time_zero" \/ time_zero = None THEN Err(f1)
        ELSE IF message.voltage = None \/ message.time = None \/ message.channel = None
             THEN Err(f2)
        ELSE IF fault = "pulse_height" THEN Err(f2)
        ELSE IF fault = "event_time_offset" THEN Err(f3)
        ELSE IF fault = "event_id" THEN Err(f4)
        ELSE [ret |-> "Ok",
              handle |-> [handle EXCEPT !.num_events = total_events,
                                        !.num_messages = @ + 1],
              file |-> f5]

\* ------------------------------------------------------------------------
\* NeXus writer: RunParameters
\* ------------------------------------------------------------------------
RunParameters_new(data) ==
    [collect_from |-> data.start_time, run_stop_parameters |-> None,
     run_name |-> data.run_name, periods |-> <<>>, file_name |-> data.filename]

\* mutant of RunParameters_set_stop_if_valid: a stop that is set is replaced
set_stop_if_valid_overwrite(parameters, data) ==
    IF parameters.collect_from < data.stop_time
    THEN [ret |-> "Ok",
          parameters |-> [parameters EXCEPT !.run_stop_parameters =
              Some([collect_until |-> data.stop_time, last_modified |-> utc_now])]]
    ELSE [ret |-> "StopTimeEarlierThanStartTime", parameters |-> parameters]

\* mutant of RunParameters_set_stop_if_valid: a stop time equal to the start is accepted
set_stop_if_valid_inclusive(parameters, data) ==
    IF parameters.run_stop_parameters # None
    THEN [ret |-> "StopCommandBeforeStartCommand", parameters |-> parameters]
    ELSE IF parameters.collect_from <= data.stop_time
         THEN [ret |-> "Ok",
               parameters |-> [parameters EXCEPT !.run_stop_parameters =
                   Some([collect_until |-> data.stop_time, last_modified |-> utc_now])]]
         ELSE [ret |-> "StopTimeEarlierThanStartTime", parameters |-> parameters]

RunParameters_set_stop_if_valid(parameters, data) ==
    IF parameters.run_stop_parameters # None
    THEN [ret |-> "StopCommandBeforeStartCommand", parameters |-> parameters]
    ELSE IF parameters.collect_from < data.stop_time
         THEN [ret |-> "Ok",
               parameters |-> [parameters EXCEPT !.run_stop_parameters =
                   Some([collect_until |-> data.stop_time, last_modified |-> utc_now])]]
         ELSE [ret |-> "StopTimeEarlierThanStartTime", parameters |-> parameters]

set_aborted_run(parameters, stop_time) ==
    IF parameters.run_stop_parameters # None
    THEN [ret |-> "RunStopAlreadySet", parameters |-> parameters]
    ELSE [ret |-> "Ok",
          parameters |-> [parameters EXCEPT !.run_stop_parameters =
              Some([collect_until |-> stop_time, last_modified |-> utc_now])]]

is_message_timestamp_not_after_end(parameters, timestamp) ==
    IF parameters.run_stop_parameters = None
    THEN TRUE
    ELSE timestamp < parameters.run_stop_parameters[1].collect_until

\* mutant of is_message_timestamp_within_range: a timestamp equal to collect_from is in range
is_message_timestamp_within_range_inclusive(parameters, timestamp) ==
    IF parameters.collect_from <= timestamp
    THEN is_message_timestamp_not_after_end(parameters, timestamp)
    ELSE FALSE

is_message_timestamp_within_range(parameters, timestamp) ==
    IF parameters.collect_from < timestamp
    THEN is_message_timestamp_not_after_end(parameters, timestamp)
    ELSE FALSE

update_last_modified(parameters) ==
    IF parameters.run_stop_parameters # None
    THEN [parameters EXCEPT !.run_stop_parameters[1].last_modified = utc_now]
    ELSE parameters

\* Entry::extract_run_parameters: the parameters read back from a file
extract_run_parameters(file) ==
    LET end_time == get_datetime(file.end_time)
    IN  [collect_from |-> get_datetime(file.start_time)[1],
         run_stop_parameters |->
             IF end_time = None THEN None
             ELSE Some([collect_until |-> end_time[1], last_modified |-> utc_now]),
         run_name |-> file.name,
         periods |-> file.periods,
         file_name |-> file.name]

\* EventData::populate_group_structure: the handle of a file that is opened again
populate_group_structure(id, file) ==
    [id |-> id, num_messages |-> Len(file.event_time_zero),
     num_events |-> Len(file.event_time_offset), offset |-> get_datetime(file.offset)]

\* ------------------------------------------------------------------------
\* NeXus writer: Run
\* ------------------------------------------------------------------------
\* Run::new_run: the run and the file it builds as files[id]
Run_new_run(run_start, id) ==
    LET parameters == RunParameters_new(run_start)
    IN  [run |-> [parameters |-> parameters,
                  file |-> [new_handle(id) EXCEPT !.offset = Some(parameters.collect_from)]],
         file |-> InitialiseNewNexusStructure(build_new_file(parameters.file_name),
                                              parameters)]

\* Run::resume_partial_run on the file stored as temp/filename
Run_resume_partial_run(fs, filename) ==
    LET id == path(fs, "temp", filename)
    IN  [parameters |-> extract_run_parameters(fs[id]),
         file |-> populate_group_structure(id, fs[id])]

has_run_stop(run) == run.parameters.run_stop_parameters # None

\* Run::push_frame_event_list on the run and the contents of its file
Run_push_frame_event_list(run, file, message, fault) ==
    LET w == EventData_PushFrameEventList(run.file, file, message, fault)
        period_number == message.metadata.period_number
        contains == \E i \in DOMAIN run.parameters.periods :
                        run.parameters.periods[i] = period_number
        periods == IF contains THEN run.parameters.periods
                   ELSE Append(run.parameters.periods, period_number)
    IN  IF w.ret # "Ok"
        THEN [ret |-> w.ret, run |-> [run EXCEPT !.file = w.handle], file |-> w.file]
        ELSE [ret |-> "Ok",
              run |-> [parameters |->
                           update_last_modified([run.parameters EXCEPT !.periods = periods]),
                       file |-> w.handle],
              file |-> IF contains THEN w.file ELSE UpdatePeriodList(w.file, periods)]

\* Run::set_stop_if_valid; file_fault: writing the end time to the file fails
Run_set_stop_if_valid(run, file, data, file_fault) ==
    LET p == RunParameters_set_stop_if_valid(run.parameters, data)
    IN  IF p.ret # "Ok"
        THEN [ret |-> p.ret, run |-> run, file |-> file]
        ELSE IF file_fault
             THEN [ret |-> "HDF5", run |-> [run EXCEPT !.parameters = p.parameters],
                   file |-> file]
             ELSE [ret |-> "Ok", run |-> [run EXCEPT !.parameters = p.parameters],
                   file |-> SetEndTime(file,
                                p.parameters.run_stop_parameters[1].collect_until)]

\* Run::abort_run; file_fault: writing the end time to the file fails
Run_abort_run(run, file, absolute_stop_time_ms, file_fault) ==
    LET p == set_aborted_run(run.parameters, absolute_stop_time_ms)
    IN  IF p.ret # "Ok"
        THEN [ret |-> p.ret, run |-> run, file |-> file]
        ELSE IF file_fault
             THEN [ret |-> "HDF5", run |-> [run EXCEPT !.parameters = p.parameters],
                   file |-> file]
             ELSE LET collect_until == p.parameters.run_stop_parameters[1].collect_until
                      relative_stop_time_ms == collect_until - run.parameters.collect_from
                  IN  [ret |-> "Ok", run |-> [run EXCEPT !.parameters = p.parameters],
                       file |-> PushAbortRunLogWarning(SetEndTime(file, collect_until),
                                    run.parameters.collect_from, relative_stop_time_ms)]

\* mutant of has_completed: a delay that has just elapsed counts
has_completed_inclusive(run, delay) ==
    /\ run.parameters.run_stop_parameters # None
    /\ utc_now - run.parameters.run_stop_parameters[1].last_modified >= delay

has_completed(run, delay) ==
    /\ run.parameters.run_stop_parameters # None
    /\ utc_now - run.parameters.run_stop_parameters[1].last_modified > delay

\* Run::move_to_completed: rename temp/file_name to completed/file_name;
\* io_fault: the rename fails
move_to_completed(run, fs, io_fault) ==
    LET from_path == path(fs, "temp", run.parameters.file_name)
    IN  IF io_fault \/ from_path = 0
        THEN [ret |-> "IO", files |-> fs]
        ELSE [ret |-> "Ok", files |-> [fs EXCEPT ![from_path].dir = "completed"]]

\* KafkaTopicInterface::ensure_subscription_mode_is; kafka_fault: subscribing fails
ensure_subscription_mode_is(mode, kafka_fault) ==
    IF kafka_fault
    THEN [ret |-> "Kafka", topic_mode |-> topic_mode]
    ELSE [ret |-> "Ok", topic_mode |-> mode]

\* ------------------------------------------------------------------------
\* NeXus writer: NexusEngine
\* ------------------------------------------------------------------------
\* index of the first run whose range contains the timestamp, 0 if there is none
find_run_containing(timestamp) ==
    LET valid == { i \in DOMAIN run_cache :
                      is_message_timestamp_within_range(run_cache[i].parameters, timestamp) }
    IN  IF valid = {} THEN 0 ELSE CHOOSE i \in valid : \A j \in valid : i <= j

EngineResult(op, ret, arg) == [op |-> op, ret |-> ret, arg |-> arg]

\* NexusEngine::push_run_start (with abort_back_run); fault says which of the
\* end-time write of the abort, the creation of the new file and the subscription fails
push_run_start(run_start, fault) ==
    LET last == Len(run_cache)
        must_abort == run_cache # <<>> /\ ~ has_run_stop(run_cache[last])
        a == Run_abort_run(run_cache[last], files[run_cache[last].file.id],
                           run_start.start_time, fault = "abort")
        cache1 == IF must_abort THEN [run_cache EXCEPT ![last] = a.run] ELSE run_cache
        files1 == IF must_abort
                  THEN [files EXCEPT ![run_cache[last].file.id] = a.file]
                  ELSE files
        n == Run_new_run(run_start, Len(files) + 1)
        mode == ensure_subscription_mode_is("Full", fault = "kafka")
    IN  /\ IF must_abort /\ a.ret # "Ok"
           THEN /\ run_cache' = cache1
                /\ files' = files1
                /\ topic_mode' = topic_mode
                /\ written' = written
                /\ engine_result' = EngineResult("push_run_start", a.ret, run_start)
           ELSE IF fault = "new_run"
           THEN /\ run_cache' = cache1
                /\ files' = files1
                /\ topic_mode' = topic_mode
                /\ written' = written
                /\ engine_result' = EngineResult("push_run_start", "HDF5", run_start)
           ELSE /\ run_cache' = Append(cache1, n.run)
                /\ files' = Append(files1, n.file)
                /\ topic_mode' = mode.topic_mode
                /\ written' = Append(written, <<>>)
                /\ engine_result' = EngineResult("push_run_start", mode.ret, run_start)
        /\ messages' = messages + 1
        /\ UNCHANGED utc_now

\* mutant of push_run_stop: a RunStop on an empty cache is ignored
push_run_stop_ignore_unexpected(data, file_fault) ==
    LET last == Len(run_cache)
        w == Run_set_stop_if_valid(run_cache[last], files[run_cache[last].file.id],
                                   data, file_fault)
    IN  /\ IF run_cache # <<>>
           THEN /\ run_cache' = [run_cache EXCEPT ![last] = w.run]
                /\ files' = [files EXCEPT ![run_cache[last].file.id] = w.file]
                /\ engine_result' = EngineResult("push_run_stop", w.ret, data)
           ELSE /\ engine_result' = EngineResult("push_run_stop", "Ok", data)
                /\ UNCHANGED <<run_cache, files>>
        /\ messages' = messages + 1
        /\ UNCHANGED <<topic_mode, utc_now, written>>

\* NexusEngine::push_run_stop
push_run_stop(data, file_fault) ==
    LET last == Len(run_cache)
        w == Run_set_stop_if_valid(run_cache[last], files[run_cache[last].file.id],
                                   data, file_fault)
    IN  /\ IF run_cache # <<>>
           THEN /\ run_cache' = [run_cache EXCEPT ![last] = w.run]
                /\ files' = [files EXCEPT ![run_cache[last].file.id] = w.file]
                /\ engine_result' = EngineResult("push_run_stop", w.ret, data)
           ELSE /\ engine_result' = EngineResult("push_run_stop", "RunStopUnexpected", data)
                /\ UNCHANGED <<run_cache, files>>
        /\ messages' = messages + 1
        /\ UNCHANGED <<topic_mode, utc_now, written>>

\* NexusEngine::push_frame_event_list
push_frame_event_list(message, fault) ==
    LET i == find_run_containing(message.metadata.timestamp)
        w == Run_push_frame_event_list(run_cache[i], files[run_cache[i].file.id],
                                       message, fault)
    IN  /\ IF i # 0
           THEN /\ run_cache' = [run_cache EXCEPT ![i] = w.run]
                /\ files' = [files EXCEPT ![run_cache[i].file.id] = w.file]
                /\ written' = IF w.ret = "Ok"
                              THEN [written EXCEPT ![run_cache[i].file.id] =
                                       Append(@, Len(message.channel[1]))]
                              ELSE written
                /\ engine_result' = EngineResult("push_frame_event_list", w.ret, message)
           ELSE /\ engine_result' = EngineResult("push_frame_event_list", "Ok", message)
                /\ UNCHANGED <<run_cache, files, written>>
        /\ messages' = messages + 1
        /\ UNCHANGED <<topic_mode, utc_now>>

\* the loop of NexusEngine::flush over the drained runs temp[i..]; kept are the runs
\* pushed back so far, io_fault is the index of the run whose move fails (0: none)
RECURSIVE flush_runs(_, _, _, _, _, _)
flush_runs(temp, i, kept, fs, delay, io_fault) ==
    IF i > Len(temp)
    THEN [ret |-> "Ok", run_cache |-> kept, files |-> fs]
    ELSE IF has_completed(temp[i], delay)
         THEN LET m == move_to_completed(temp[i], fs, io_fault = i)
              IN  IF m.ret # "Ok"
                  THEN [ret |-> m.ret, run_cache |-> kept, files |-> fs]
                  ELSE flush_runs(temp, i + 1, kept, m.files, delay, io_fault)
         ELSE flush_runs(temp, i + 1, Append(kept, temp[i]), fs, delay, io_fault)

\* NexusEngine::flush
flush(delay, io_fault, kafka_fault) ==
    LET f == flush_runs(run_cache, 1, <<>>, files, delay, io_fault)
        mode == ensure_subscription_mode_is("ConitinousOnly", kafka_fault)
    IN  /\ run_cache' = f.run_cache
        /\ files' = f.files
        /\ IF f.ret # "Ok"
           THEN /\ topic_mode' = topic_mode
                /\ engine_result' = EngineResult("flush", f.ret, delay)
           ELSE IF f.run_cache = <<>>
           THEN /\ topic_mode' = mode.topic_mode
                /\ engine_result' = EngineResult("flush", mode.ret, delay)
           ELSE /\ topic_mode' = topic_mode
                /\ engine_result' = EngineResult("flush", "Ok", delay)
        /\ UNCHANGED <<utc_now, written, messages>>

\* the names of the files of the local temporary directory, as glob yields them
RECURSIVE glob(_, _)
glob(fs, from) ==
    LET names == { fs[i].file_name : i \in { j \in DOMAIN fs : fs[j].dir = "temp" } }
        rest == { n \in names : n >= from }
    IN  IF rest = {} THEN <<>>
        ELSE LET first == CHOOSE n \in rest : \A m \in rest : n <= m
             IN  <<first>> \o glob(fs, first + 1)

\* NexusEngine::resume_partial_runs on the engine of a process that has just started
resume_partial_runs ==
    LET names == glob(files, 1)
    IN  /\ run_cache' = [k \in DOMAIN names |-> Run_resume_partial_run(files, names[k])]
        /\ topic_mode' = "Full"
        /\ engine_result' = EngineResult("resume_partial_runs", "Ok", <<>>)
        /\ UNCHANGED <<utc_now, files, written, messages>>

\* ------------------------------------------------------------------------
\* NeXus writer: actions
\* ------------------------------------------------------------------------
\* no file is stored under the name yet
fresh_file_name(file_name) ==
    path(files, "temp", file_name) = 0 /\ path(files, "completed", file_name) = 0

\* a RunStart whose filename is its run name arrives; the runs are named in order
PushRunStart ==
    /\ main = "loop"
    /\ messages < MaxMessages
    /\ Len(files) < MaxRunName
    /\ \E run_start \in RunStartSet, fault \in RunStartFaultSet :
          /\ run_start.run_name = Len(files) + 1
          /\ fresh_file_name(run_start.filename)
          /\ push_run_start(run_start, fault)
    /\ UNCHANGED <<main, cache_vars, runtime_vars, detector_vars, window_vars, process_vars>>

\* a RunStart with any filename arrives
PushRunStartFile ==
    /\ main = "loop"
    /\ messages < MaxMessages
    /\ \E run_start \in RunStartFileSet, fault \in RunStartFaultSet :
          /\ fresh_file_name(run_start.filename)
          /\ push_run_start(run_start, fault)
    /\ UNCHANGED <<main, cache_vars, runtime_vars, detector_vars, window_vars, process_vars>>

\* a RunStop arrives
PushRunStop ==
    /\ main = "loop"
    /\ messages < MaxMessages
    /\ \E data \in RunStopSet, file_fault \in BOOLEAN : push_run_stop(data, file_fault)
    /\ UNCHANGED <<main, cache_vars, runtime_vars, detector_vars, window_vars, process_vars>>

\* a frame event list arrives
PushFrameEventList ==
    /\ main = "loop"
    /\ messages < MaxMessages
    /\ \E message \in FrameMessageSet, fault \in FaultSet :
          push_frame_event_list(message, fault)
    /\ UNCHANGED <<main, cache_vars, runtime_vars, detector_vars, window_vars, process_vars>>

\* a frame event list of any size arrives
PushFrameContent ==
    /\ main = "loop"
    /\ messages < MaxMessages
    /\ \E message \in FrameContentSet, fault \in EventFaultSet :
          push_frame_event_list(message, fault)
    /\ UNCHANGED <<main, cache_vars, runtime_vars, detector_vars, window_vars, process_vars>>

\* the periodic flush of main: `flush(&run_ttl).into_diagnostic()?` returns from
\* main when flush returns an error
Flush ==
    /\ main = "loop"
    /\ \E io_fault \in 0..Len(run_cache), kafka_fault \in BOOLEAN :
          flush(run_ttl, io_fault, kafka_fault)
    /\ main' = IF engine_result'.ret = "Ok" THEN "loop" ELSE "failed"
    /\ UNCHANGED <<cache_vars, runtime_vars, detector_vars, window_vars, process_vars>>

\* NexusEngine::close_all: the engine is consumed and its runs are closed in order
\* until a close fails
close_all(file_fault) ==
    /\ run_cache' = <<>>
    /\ engine_result' = EngineResult("close_all", IF file_fault THEN "HDF5" ELSE "Ok", <<>>)
    /\ UNCHANGED <<topic_mode, utc_now, files, written, messages>>

\* the interrupt signal arrives: main closes all runs and returns
Interrupt ==
    /\ main = "loop"
    /\ \E file_fault \in BOOLEAN :
          /\ file_fault => run_cache # <<>>
          /\ close_all(file_fault)
    /\ main' = "interrupted"
    /\ UNCHANGED <<cache_vars, runtime_vars, detector_vars, window_vars, process_vars>>

\* the process is started again on the same local directory: main subscribes in
\* Full mode, builds an engine and resumes the partial runs
Restart ==
    /\ resume_partial_runs
    /\ main' = "loop"
    /\ UNCHANGED <<cache_vars, runtime_vars, detector_vars, window_vars, process_vars>>

\* the clock read by Utc::now() advances
TickUtc ==
    /\ utc_now < MaxUtc
    /\ utc_now' = utc_now + 1
    /\ engine_result' = EngineResult("tick", "", <<>>)
    /\ UNCHANGED <<run_cache, topic_mode, files, written, messages, main>>
    /\ UNCHANGED <<cache_vars, runtime_vars, detector_vars, window_vars, process_vars>>

\* the engine of a process started on an empty local directory
InitEngine ==
    /\ Init
    /\ expected_digitisers = <<0>>

\* the messages of the control and frame topics
NextEngine == PushRunStart \/ PushRunStop \/ PushFrameEventList

SpecEngine == InitEngine /\ [][NextEngine]_vars

\* the messages and the periodic flush
NextFlush == PushRunStart \/ PushRunStop \/ PushFrameEventList \/ Flush \/ TickUtc

SpecFlush == InitEngine /\ [][NextFlush]_vars

\* the messages and restarts of the process
NextResume == PushRunStartFile \/ PushRunStop \/ PushFrameEventList \/ Restart

SpecResume == InitEngine /\ [][NextResume]_vars

\* run starts and frame event lists of any size
NextEventData == PushRunStart \/ PushFrameContent

SpecEventData == InitEngine /\ [][NextEventData]_vars

\* the three arms of the select of main: a message, the flush interval, the interrupt
NextMain ==
    PushRunStart \/ PushRunStop \/ PushFrameEventList \/ Flush \/ TickUtc \/ Interrupt

SpecMain == InitEngine /\ [][NextMain]_vars

\* ------------------------------------------------------------------------
\* Digitiser aggregator: main, the producer task and the channel
\* ------------------------------------------------------------------------
\* the process lives until main returns; the tasks it spawned end with it
alive == aggregator_main \notin {"returned", "failed"}

\* mutant of reserve: a full channel is reported like a closed one
reserve_full_is_error ==
    IF channel_closed \/ Len(frame_channel) >= send_frame_buffer_size THEN "Closed" ELSE "Permit"

\* mutant of reserve: a permit is given although the channel is full
reserve_never_waits == IF channel_closed THEN "Closed" ELSE "Permit"

\* Sender::reserve at this moment: a permit, the error of a closed channel, or
\* the caller keeps waiting
reserve ==
    IF channel_closed THEN "Closed"
    ELSE IF Len(frame_channel) < send_frame_buffer_size THEN "Permit"
    ELSE "Pending"

\* where main goes after a frame has been sent: `while let` polls the cache again
after_send == "cache_poll"

\* the body of the loop of cache_poll for the frame that cache.poll() returned
send_frame(frame) ==
    IF reserve = "Permit"
    THEN /\ frame_channel' = Append(frame_channel, frame)
         /\ pending' = None
         /\ aggregator_main' = after_send
    ELSE IF reserve = "Closed"
    THEN /\ frame_channel' = frame_channel
         /\ pending' = None
         /\ aggregator_main' = "failed"
    ELSE /\ frame_channel' = frame_channel
         /\ pending' = Some(frame)
         /\ aggregator_main' = "reserve"

\* main receives a digitiser message: process_digitiser_event_list_message pushes
\* it to the cache and enters cache_poll
RecvMessage ==
    /\ aggregator_main = "select"
    /\ pushes < MaxPushes
    /\ \E i \in DOMAIN expected_digitisers, metadata \in MetadataSet, data \in OneEventData :
          push(expected_digitisers[i], metadata, data)
    /\ aggregator_main' = "cache_poll"
    /\ UNCHANGED <<frame_channel, channel_closed, pending, producer_task, main_sigint,
                   producer_sigint, channel_at_interrupt, produced>>
    /\ UNCHANGED <<engine_vars, detector_vars, window_vars, process_vars>>

\* the poll interval of main ticks: cache_poll is entered
IntervalTick ==
    /\ aggregator_main = "select"
    /\ aggregator_main' = "cache_poll"
    /\ UNCHANGED <<frame_channel, channel_closed, pending, producer_task, main_sigint,
                   producer_sigint, channel_at_interrupt, produced>>
    /\ UNCHANGED <<cache_vars, engine_vars, detector_vars, window_vars, process_vars>>

\* one turn of `while let Some(frame) = cache.poll()` in cache_poll
CachePoll ==
    /\ aggregator_main = "cache_poll"
    /\ poll
    /\ IF result'.ret = "Some"
       THEN send_frame(result'.out[1])
       ELSE /\ aggregator_main' = "select"
            /\ UNCHANGED <<frame_channel, pending>>
    /\ UNCHANGED <<channel_closed, producer_task, main_sigint, producer_sigint,
                   channel_at_interrupt, produced>>
    /\ UNCHANGED <<engine_vars, detector_vars, window_vars, process_vars>>

\* the reserve() that main awaits completes
ReserveReady ==
    /\ aggregator_main = "reserve"
    /\ reserve # "Pending"
    /\ send_frame(pending[1])
    /\ UNCHANGED <<channel_closed, producer_task, main_sigint, producer_sigint,
                   channel_at_interrupt, produced>>
    /\ UNCHANGED <<cache_vars, engine_vars, detector_vars, window_vars, process_vars>>

\* the interrupt signal is delivered to the process: both Signals receive it
SigintArrives ==
    /\ alive
    /\ channel_at_interrupt = None
    /\ main_sigint' = TRUE
    /\ producer_sigint' = TRUE
    /\ channel_at_interrupt' = Some(frame_channel)
    /\ UNCHANGED <<frame_channel, channel_closed, aggregator_main, pending, producer_task, produced>>
    /\ UNCHANGED <<cache_vars, engine_vars, detector_vars, window_vars, process_vars>>

\* main takes the sigint arm of its select and awaits the producer task
MainSigint ==
    /\ aggregator_main = "select"
    /\ main_sigint
    /\ main_sigint' = FALSE
    /\ aggregator_main' = "await_producer"
    /\ UNCHANGED <<frame_channel, channel_closed, pending, producer_task, producer_sigint,
                   channel_at_interrupt, produced>>
    /\ UNCHANGED <<cache_vars, engine_vars, detector_vars, window_vars, process_vars>>

\* producer_task_handle.await completes and main returns Ok
MainJoin ==
    /\ aggregator_main = "await_producer"
    /\ producer_task = "terminated"
    /\ aggregator_main' = "returned"
    /\ UNCHANGED <<frame_channel, channel_closed, pending, producer_task, main_sigint,
                   producer_sigint, channel_at_interrupt, produced>>
    /\ UNCHANGED <<cache_vars, engine_vars, detector_vars, window_vars, process_vars>>

\* produce_to_kafka takes the recv arm of its select: a frame is produced, or the
\* channel is closed and empty and the task returns
ProducerRecv ==
    /\ alive
    /\ producer_task = "select"
    /\ frame_channel # <<>> \/ channel_closed
    /\ IF frame_channel # <<>>
       THEN /\ frame_channel' = Tail(frame_channel)
            /\ produced' = Append(produced, Head(frame_channel))
            /\ producer_task' = "select"
       ELSE /\ producer_task' = "terminated"
            /\ UNCHANGED <<frame_channel, produced>>
    /\ UNCHANGED <<channel_closed, aggregator_main, pending, main_sigint, producer_sigint,
                   channel_at_interrupt>>
    /\ UNCHANGED <<cache_vars, engine_vars, detector_vars, window_vars, process_vars>>

\* produce_to_kafka takes the sigint arm: close_and_flush_producer_channel closes
\* the channel
ProducerSigint ==
    /\ alive
    /\ producer_task = "select"
    /\ producer_sigint
    /\ producer_sigint' = FALSE
    /\ channel_closed' = TRUE
    /\ producer_task' = "close_and_flush"
    /\ UNCHANGED <<frame_channel, aggregator_main, pending, main_sigint, channel_at_interrupt,
                   produced>>
    /\ UNCHANGED <<cache_vars, engine_vars, detector_vars, window_vars, process_vars>>

\* one turn of the loop of close_and_flush_producer_channel: a frame is flushed, or
\* recv() yields None and the function returns to the select
ProducerFlush ==
    /\ alive
    /\ producer_task = "close_and_flush"
    /\ IF frame_channel # <<>>
       THEN /\ frame_channel' = Tail(frame_channel)
            /\ produced' = Append(produced, Head(frame_channel))
            /\ producer_task' = "close_and_flush"
       ELSE /\ producer_task' = "select"
            /\ UNCHANGED <<frame_channel, produced>>
    /\ UNCHANGED <<channel_closed, aggregator_main, pending, main_sigint, producer_sigint,
                   channel_at_interrupt>>
    /\ UNCHANGED <<cache_vars, engine_vars, detector_vars, window_vars, process_vars>>

\* the steps of main and of the producer task, the interrupt and the clock
NextRuntime ==
    \/ RecvMessage \/ IntervalTick \/ CachePoll \/ ReserveReady \/ SigintArrives
    \/ MainSigint \/ MainJoin \/ ProducerRecv \/ ProducerSigint \/ ProducerFlush
    \/ Tick

\* the aggregator started with one expected digitiser
InitRuntime ==
    /\ Init
    /\ Len(expected_digitisers) = 1

SpecRuntime == InitRuntime /\ [][NextRuntime]_vars

\* the aggregator started with the two expected digitisers 0 and 1
InitHandling ==
    /\ Init
    /\ expected_digitisers = <<0, 1>>

SpecHandling == InitHandling /\ [][NextRuntime]_vars

\* a digitiser message received while the clock of the model can still run past
\* the expiry of a frame created now
RecvMessageInTime ==
    /\ now + ttl < MaxNow
    /\ RecvMessage

\* the aggregator without an interrupt: the messages, the poll interval, the
\* producer task and the clock
NextUninterrupted ==
    \/ RecvMessageInTime \/ IntervalTick \/ CachePoll \/ ReserveReady \/ ProducerRecv
    \/ Tick

\* the poll interval keeps firing, main and the producer task keep running and
\* time passes
FairlyScheduled ==
    /\ WF_vars(IntervalTick)
    /\ WF_vars(CachePoll)
    /\ WF_vars(ReserveReady)
    /\ WF_vars(ProducerRecv)
    /\ WF_vars(Tick)

SpecUninterrupted == InitHandling /\ [][NextUninterrupted]_vars /\ FairlyScheduled

\* ------------------------------------------------------------------------
\* Trace to events: the differential-threshold detector
\* ------------------------------------------------------------------------
\* Real::max
Max(a, b) == IF a >= b THEN a ELSE b

\* the parameters of a detector
ThresholdDurationSet ==
    [threshold : 0..MaxThreshold, duration : 0..MaxDuration, cool_off : 0..MaxCoolOff]

\* the values of constant_multiple
ConstantMultipleSet == {None, Some(2)}

\* the samples of a trace: rises of one, two and three
ValueSet == {0, 1, 3}

\* DifferentialThresholdDetector::new
DifferentialThresholdDetector_new(trigger, constant_multiple) ==
    [trigger |-> trigger,
     time_of_last_return |-> None,
     constant_multiple |-> constant_multiple,
     time_crossed |-> None,
     temp_time |-> None,
     max_derivative |-> <<0, 0>>]

\* mutant of pulse_height: the derivative is scaled instead of the trace value
pulse_height_of_derivative(self) ==
    IF self.constant_multiple # None
    THEN self.max_derivative[2] * self.constant_multiple[1]
    ELSE self.max_derivative[1]

\* the pulse height of the event that signal or finish emits
pulse_height(self) ==
    IF self.constant_multiple # None
    THEN self.max_derivative[1] * self.constant_multiple[1]
    ELSE self.max_derivative[1]

\* mutant of cooled_off: the cool-off ends one nanosecond later
cooled_off_strict(self, time) ==
    \/ self.time_of_last_return = None
    \/ time - self.time_of_last_return[1] > self.trigger.cool_off

\* the test of the cool-down time in the arm of signal for a detector under the
\* threshold
cooled_off(self, time) ==
    \/ self.time_of_last_return = None
    \/ time - self.time_of_last_return[1] >= self.trigger.cool_off

\* mutant of take_temp_time: the time of the event stays armed
keep_temp_time(self) == self

\* the time of the event is taken out of the detector when the event is returned
take_temp_time(self) == [self EXCEPT !.temp_time = None]

\* DifferentialThresholdDetector::signal; value is <<trace value, derivative>>:
\* the detector as the call leaves it and the event returned
signal(self, time, value) ==
    IF self.time_crossed # None
    THEN LET time_crossed == self.time_crossed[1]
             s1 == IF self.constant_multiple # None
                   THEN IF self.max_derivative[2] < value[2]
                        THEN [self EXCEPT !.max_derivative = value,
                                          !.temp_time = IF @ # None THEN Some(time) ELSE @]
                        ELSE self
                   ELSE [self EXCEPT !.max_derivative[1] = Max(@, value[1])]
             s2 == IF time - time_crossed = s1.trigger.duration
                   THEN [s1 EXCEPT !.temp_time = Some(time_crossed)]
                   ELSE s1
             s3 == [s2 EXCEPT !.time_crossed = None]
             s4 == [s3 EXCEPT !.time_of_last_return = Some(time)]
         IN  IF value[2] <= 0
             THEN IF time - time_crossed >= s2.trigger.duration
                  THEN IF s4.temp_time # None
                       THEN [detector |-> take_temp_time(s4),
                             event |-> Some([time |-> s4.temp_time[1],
                                             pulse_height |-> pulse_height(s4)])]
                       ELSE [detector |-> s4, event |-> None]
                  ELSE [detector |-> s3, event |-> None]
             ELSE [detector |-> s2, event |-> None]
    ELSE IF value[2] > self.trigger.threshold /\ cooled_off(self, time)
         THEN [detector |-> [self EXCEPT !.max_derivative = value,
                                         !.time_crossed = Some(time)],
               event |-> None]
         ELSE [detector |-> self, event |-> None]

\* DifferentialThresholdDetector::finish
finish(self) ==
    [detector |-> [self EXCEPT !.temp_time = None],
     event |-> IF self.temp_time = None
               THEN None
               ELSE Some([time |-> self.temp_time[1], pulse_height |-> pulse_height(self)])]

\* the time of the sample read after n samples
sample_at(n) == n * sample_time

\* find_differential_threshold_events builds the detector of a channel
NewDifferentialDetector ==
    /\ detector = None
    /\ \E trigger \in ThresholdDurationSet, constant_multiple \in ConstantMultipleSet :
          detector' = DifferentialThresholdDetector_new(trigger, constant_multiple)
    /\ sample_time' \in 1..MaxSampleTime
    /\ UNCHANGED <<trace, events, finished, last_return>>
    /\ UNCHANGED <<cache_vars, engine_vars, runtime_vars, window_vars, process_vars>>

\* the next sample of the trace is read: FiniteDifferences<2> yields nothing for
\* the first sample and <<value, value - previous value>> afterwards, which the
\* detector receives with the time of the sample
Signal ==
    /\ detector # None
    /\ "time_crossed" \in DOMAIN detector
    /\ ~finished
    /\ Len(trace) < MaxTraceLen
    /\ \E v \in ValueSet :
          /\ trace' = Append(trace, v)
          /\ IF trace = <<>>
             THEN UNCHANGED <<detector, events, last_return>>
             ELSE LET time == sample_at(Len(trace))
                      out == signal(detector, time, <<v, v - trace[Len(trace)]>>)
                  IN  /\ detector' = out.detector
                      /\ events' = IF out.event = None THEN events
                                   ELSE Append(events, out.event[1])
                      /\ last_return' = IF out.event = None THEN last_return
                                        ELSE Some(time)
    /\ UNCHANGED <<sample_time, finished>>
    /\ UNCHANGED <<cache_vars, engine_vars, runtime_vars, window_vars, process_vars>>

\* the trace has ended: the event iterator calls finish
Finish ==
    /\ detector # None
    /\ "time_crossed" \in DOMAIN detector
    /\ ~finished
    /\ LET out == finish(detector)
       IN  /\ detector' = out.detector
           /\ events' = IF out.event = None THEN events ELSE Append(events, out.event[1])
    /\ finished' = TRUE
    /\ UNCHANGED <<sample_time, trace, last_return>>
    /\ UNCHANGED <<cache_vars, engine_vars, runtime_vars, window_vars, process_vars>>

NextDifferential == NewDifferentialDetector \/ Signal \/ Finish

SpecDifferential == InitEngine /\ [][NextDifferential]_vars

\* ------------------------------------------------------------------------
\* Trace to events: the fixed-threshold detector
\* ------------------------------------------------------------------------
\* the trace and the parameters of the test
\* fixed_threshold_discriminator_positive_zero_baseline
ExampleTrace == <<0, 1, 2, 1, 0, 1, 2, 1, 8, 0, 2, 8, 3, 1, 2>>

ExampleTrigger == [threshold |-> 5, duration |-> 1, cool_off |-> 0]

\* the parameters of a fixed-threshold detector
FixedTriggerSet == ThresholdDurationSet \cup {ExampleTrigger}

\* ThresholdDetector::new: the detector is armed
ThresholdDetector_new(trigger) ==
    [trigger |-> trigger,
     state |-> "Armed",
     entered_at |-> 0,
     max_value |-> 0,
     until |-> 0]

\* the input is at or above the threshold
at_threshold(self, value) == value >= self.trigger.threshold

\* the crossing has been held for the duration
held_for_duration(self, time) == time - self.entered_at >= self.trigger.duration

\* the transition of an armed detector
armed(self, time, value) ==
    IF at_threshold(self, value)
    THEN [self EXCEPT !.state = "CrossingHeld", !.entered_at = time, !.max_value = value]
    ELSE [self EXCEPT !.state = "Armed"]

\* ThresholdDetector::signal: the detector as the call leaves it and the event
\* returned
threshold_signal(self, time, value) ==
    CASE self.state = "Armed" ->
            [detector |-> armed(self, time, value), event |-> None]
      [] self.state = "CrossingHeld" ->
            IF held_for_duration(self, time)
            THEN [detector |-> [self EXCEPT !.state = "CoolOff",
                                            !.until = time + self.trigger.cool_off],
                  event |-> Some([time |-> self.entered_at,
                                  pulse_height |-> self.max_value])]
            ELSE IF ~at_threshold(self, value)
                 THEN [detector |-> [self EXCEPT !.state = "Armed"], event |-> None]
                 ELSE [detector |-> [self EXCEPT !.max_value = Max(@, value)],
                       event |-> None]
      [] self.state = "CoolOff" ->
            IF time >= self.until
            THEN [detector |-> armed(self, time, value), event |-> None]
            ELSE [detector |-> self, event |-> None]

\* ThresholdDetector::finish: in the middle of a hold it may emit one final event
threshold_finish(self) ==
    IF self.state = "CrossingHeld"
    THEN {None, Some([time |-> self.entered_at, pulse_height |-> self.max_value])}
    ELSE {None}

\* find_fixed_threshold_events builds the detector of a channel
NewThresholdDetector ==
    /\ detector = None
    /\ \E trigger \in FixedTriggerSet : detector' = ThresholdDetector_new(trigger)
    /\ sample_time' \in 1..MaxSampleTime
    /\ UNCHANGED <<trace, events, finished, last_return>>
    /\ UNCHANGED <<cache_vars, engine_vars, runtime_vars, window_vars, process_vars>>

\* the samples that may follow the trace read so far: any sample of ValueSet, and
\* the next sample of ExampleTrace
NextSamples ==
    (IF Len(trace) < MaxTraceLen THEN ValueSet ELSE {})
    \cup (IF /\ Len(trace) < Len(ExampleTrace)
              /\ SubSeq(ExampleTrace, 1, Len(trace)) = trace
           THEN {ExampleTrace[Len(trace) + 1]}
           ELSE {})

\* the next sample of the trace is read and the detector receives it with its time
ThresholdSignal ==
    /\ detector # None
    /\ "state" \in DOMAIN detector
    /\ ~finished
    /\ \E v \in NextSamples :
          /\ trace' = Append(trace, v)
          /\ LET out == threshold_signal(detector, sample_at(Len(trace)), v)
             IN  /\ detector' = out.detector
                 /\ events' = IF out.event = None THEN events
                              ELSE Append(events, out.event[1])
    /\ UNCHANGED <<sample_time, finished, last_return>>
    /\ UNCHANGED <<cache_vars, engine_vars, runtime_vars, window_vars, process_vars>>

\* the trace has ended: the event iterator calls finish
ThresholdFinish ==
    /\ detector # None
    /\ "state" \in DOMAIN detector
    /\ ~finished
    /\ \E event \in threshold_finish(detector) :
          events' = IF event = None THEN events ELSE Append(events, event[1])
    /\ finished' = TRUE
    /\ UNCHANGED <<detector, sample_time, trace, last_return>>
    /\ UNCHANGED <<cache_vars, engine_vars, runtime_vars, window_vars, process_vars>>

NextFixed == NewThresholdDetector \/ ThresholdSignal \/ ThresholdFinish

SpecFixed == InitEngine /\ [][NextFixed]_vars

\* a channel with either detector
NextDetectors == NextDifferential \/ NextFixed

SpecDetectors == InitEngine /\ [][NextDetectors]_vars

\* ------------------------------------------------------------------------
\* Trace to events: the FiniteDifferences window
\* ------------------------------------------------------------------------
\* num::integer::binomial: the product is built factor by factor
RECURSIVE binomial(_, _)
binomial(n, k) ==
    IF k > n THEN 0
    ELSE IF k = 0 THEN 1
    ELSE (binomial(n, k - 1) * (n - k + 1)) \div k

\* mutant of coefficient: the signs are dropped
coefficient_unsigned(n, k) == binomial(n, k)

\* coefficients[n][k] as FiniteDifferences::new computes it
coefficient(n, k) == (IF k % 2 = 1 THEN -1 ELSE 1) * binomial(n, k)

\* FiniteDifferences::<N>::new; values holds the newest value first
FiniteDifferences_new(N) ==
    [N |-> N,
     coefficients |-> [n \in 0..(N - 1) |-> [k \in 0..n |-> coefficient(n, k)]],
     values |-> <<>>,
     diffs |-> [n \in 1..N |-> 0]]

\* FiniteDifferences::nth_difference over the values given
nth_difference(self, values, n) ==
    LET RECURSIVE sum(_)
        sum(k) == IF k < 0 THEN 0
                  ELSE self.coefficients[n][k] * values[k + 1] + sum(k - 1)
    IN  sum(n)

\* the test of push: the window does not hold N - 1 values yet
warming_up(self) == Len(self.values) + 1 < self.N

\* FiniteDifferences::push: the window as the call leaves it and the value returned
window_push(self, value) ==
    LET front == <<value>> \o self.values
    IN  IF warming_up(self)
        THEN [window |-> [self EXCEPT !.values = front], ret |-> FALSE]
        ELSE [window |-> [self EXCEPT
                            !.diffs = [n \in 1..self.N |-> nth_difference(self, front, n - 1)],
                            !.values = SubSeq(front, 1, Len(front) - 1)],
              ret |-> TRUE]

\* FiniteDifferences::output
output(self) ==
    IF Len(self.values) + 1 = self.N THEN Some(self.diffs) ELSE None

\* a window of order N is built
NewFiniteDifferences ==
    /\ window = None
    /\ \E N \in 1..MaxOrder : window' = FiniteDifferences_new(N)
    /\ UNCHANGED <<inputs, pushed, yielded>>
    /\ UNCHANGED <<cache_vars, engine_vars, runtime_vars, detector_vars, process_vars>>

\* a value is pushed
WindowPush ==
    /\ window # None
    /\ Len(inputs) < MaxInputs
    /\ \E value \in ValueSet :
          LET out == window_push(window, value)
          IN  /\ window' = out.window
              /\ pushed' = Some(out.ret)
              /\ inputs' = Append(inputs, value)
    /\ yielded' = None
    /\ UNCHANGED <<cache_vars, engine_vars, runtime_vars, detector_vars, process_vars>>

\* output is called
WindowOutput ==
    /\ window # None
    /\ yielded' = Some(output(window))
    /\ UNCHANGED <<window, inputs, pushed>>
    /\ UNCHANGED <<cache_vars, engine_vars, runtime_vars, detector_vars, process_vars>>

NextWindow == NewFiniteDifferences \/ WindowPush \/ WindowOutput

SpecWindow == InitEngine /\ [][NextWindow]_vars

\* ------------------------------------------------------------------------
\* Trace to events: process
\* ------------------------------------------------------------------------
\* the detector settings of the process: the differential-threshold discriminator
ProcessTrigger == [threshold |-> 1, duration |-> 1, cool_off |-> 0]

\* the traces of a channel: no event, one event, two events
ChannelTraceSet == {<<0, 1, 0>>, <<0, 3, 0>>, <<0, 3, 0, 3, 1>>}

\* the channel numbers of a message
ChannelSet == {0, 7}

\* the channels of a trace message
ChannelTraces ==
    UNION {[1..n -> [channel : ChannelSet, voltage : ChannelTraceSet]] : n \in 0..MaxChannels}

\* the trace messages
TraceMessageSet ==
    [digitizer_id : {0}, metadata : MetadataSet, channels : ChannelTraces]

\* `as Time`: the cast to u32 saturates; the times of the model stay far below
\* u32::MAX, so only the lower end is written
as_Time(x) == IF x < 0 THEN 0 ELSE x

\* `as Intensity`: the cast to u16 saturates
as_Intensity(x) == IF x < 0 THEN 0 ELSE IF x > 65535 THEN 65535 ELSE x

\* the event iterator over the samples from the i-th on: the window yields nothing
\* for the first sample, the detector receives every later one, finish is called
\* at the end
RECURSIVE detector_events(_, _, _, _)
detector_events(self, voltage, i, found) ==
    IF i > Len(voltage)
    THEN LET out == finish(self)
         IN  IF out.event = None THEN found ELSE Append(found, out.event[1])
    ELSE IF i = 1
    THEN detector_events(self, voltage, 2, found)
    ELSE LET out == signal(self, sample_at(i - 1),
                           <<voltage[i], voltage[i] - voltage[i - 1]>>)
         IN  detector_events(out.detector, voltage, i + 1,
                             IF out.event = None THEN found
                             ELSE Append(found, out.event[1]))

\* find_channel_events in the differential mode: the times and the voltages
find_channel_events(voltage) ==
    LET pulses == detector_events(DifferentialThresholdDetector_new(ProcessTrigger, None),
                                  voltage, 1, <<>>)
    IN  [time |-> [k \in 1..Len(pulses) |-> as_Time(pulses[k].time)],
         voltage |-> [k \in 1..Len(pulses) |-> as_Intensity(pulses[k].pulse_height)]]

\* the channel vector of n events of one channel
repeat(channel, n) == [k \in 1..n |-> channel]

\* mutant of collect: the results in the order the workers finished
collect_as_completed(results, order) == [k \in 1..Len(order) |-> results[order[k]][1]]

\* collect of the indexed parallel iterator: the results in the order of the
\* channels of the message
collect(results, order) == [k \in 1..Len(results) |-> results[k][1]]

\* the loop over the collected results from the i-th on, appended to the event data
RECURSIVE extend(_, _, _)
extend(vec, i, data) ==
    IF i > Len(vec) THEN data
    ELSE extend(vec, i + 1,
                [channel |-> data.channel \o repeat(vec[i].channel, Len(vec[i].events.time)),
                 time    |-> data.time \o vec[i].events.time,
                 voltage |-> data.voltage \o vec[i].events.voltage])

\* the metadata of the event list, copied field by field
copy_metadata(metadata) ==
    [frame_number      |-> metadata.frame_number,
     period_number     |-> metadata.period_number,
     running           |-> metadata.running,
     protons_per_pulse |-> metadata.protons_per_pulse,
     timestamp         |-> metadata.timestamp,
     veto_flags        |-> metadata.veto_flags]

\* a trace message arrives and process starts one worker per channel
ReceiveTrace ==
    /\ trace_message = None
    /\ \E message \in TraceMessageSet :
          /\ trace_message' = Some(message)
          /\ slots' = [k \in 1..Len(message.channels) |-> None]
    /\ UNCHANGED <<completed, event_message>>
    /\ UNCHANGED <<cache_vars, engine_vars, runtime_vars, detector_vars, window_vars>>

\* the worker of one channel finishes, in any order among the workers
ChannelWorker ==
    /\ trace_message # None
    /\ \E k \in DOMAIN slots :
          /\ slots[k] = None
          /\ LET channel_trace == trace_message[1].channels[k]
             IN  slots' = [slots EXCEPT ![k] =
                             Some([channel |-> channel_trace.channel,
                                   events |-> find_channel_events(channel_trace.voltage)])]
          /\ completed' = Append(completed, k)
    /\ UNCHANGED <<trace_message, event_message>>
    /\ UNCHANGED <<cache_vars, engine_vars, runtime_vars, detector_vars, window_vars>>

\* every worker has finished: the results are collected and the message is built
BuildEventList ==
    /\ trace_message # None
    /\ event_message = None
    /\ \A k \in DOMAIN slots : slots[k] # None
    /\ LET vec == collect(slots, completed)
           data == extend(vec, 1, [channel |-> <<>>, time |-> <<>>, voltage |-> <<>>])
       IN  event_message' = Some([digitizer_id |-> trace_message[1].digitizer_id,
                                  metadata |-> copy_metadata(trace_message[1].metadata),
                                  time |-> data.time,
                                  voltage |-> data.voltage,
                                  channel |-> data.channel])
    /\ UNCHANGED <<trace_message, slots, completed>>
    /\ UNCHANGED <<cache_vars, engine_vars, runtime_vars, detector_vars, window_vars>>

NextProcess == ReceiveTrace \/ ChannelWorker \/ BuildEventList

SpecProcess == InitEngine /\ [][NextProcess]_vars

\* ------------------------------------------------------------------------
\* Properties of the NeXus run engine
\* ------------------------------------------------------------------------

\* the step is a call of push_run_stop
RunStopStep == engine_result'.op = "push_run_stop" /\ messages' = messages + 1

\* the last run of the cache
back(cache) == cache[Len(cache)]

\* C12: a run receives at most one stop: a RunStop applied to a run that has a stop,
\* set by a RunStop or by an abort, returns StopCommandBeforeStartCommand and changes
\* nothing, and no message changes the collect_until of a run that has one.
C12_SecondStopIsRefused ==
    [][/\ (RunStopStep /\ run_cache # <<>> /\ has_run_stop(back(run_cache)))
            => /\ engine_result'.ret = "StopCommandBeforeStartCommand"
               /\ run_cache' = run_cache
               /\ files' = files
       /\ \A i \in DOMAIN run_cache :
             has_run_stop(run_cache[i])
                => /\ i \in DOMAIN run_cache'
                   /\ has_run_stop(run_cache'[i])
                   /\ run_cache'[i].parameters.run_stop_parameters[1].collect_until
                         = run_cache[i].parameters.run_stop_parameters[1].collect_until]_vars

\* a RunStop with a stop time after the start was refused by a run whose stop was
\* synthesised by an abort (only an abort sets a stop that is not after the start)
C12_Witness ==
    /\ engine_result.op = "push_run_stop"
    /\ engine_result.ret = "StopCommandBeforeStartCommand"
    /\ run_cache # <<>>
    /\ back(run_cache).parameters.run_stop_parameters[1].collect_until
          <= back(run_cache).parameters.collect_from
    /\ engine_result.arg.stop_time > back(run_cache).parameters.collect_from

\* C13: push_run_stop on an engine whose run cache is empty returns RunStopUnexpected
\* and leaves the run cache empty (and the files as they were).
C13_StopOnEmptyCacheIsUnexpected ==
    [][(RunStopStep /\ run_cache = <<>>)
          => /\ engine_result'.ret = "RunStopUnexpected"
             /\ run_cache' = <<>>
             /\ files' = files
             /\ topic_mode' = topic_mode]_vars

C13_Witness ==
    /\ engine_result.op = "push_run_stop"
    /\ engine_result.ret = "RunStopUnexpected"
    /\ run_cache = <<>>
    /\ messages > 0

\* the step is a call of push_run_start
RunStartStep == engine_result'.op = "push_run_start" /\ messages' = messages + 1

\* C14: when push_run_start is called while the last run of the cache has no stop, that
\* run is given a stop whose collect_until is the start time of the new RunStart and
\* the new run is appended after it; no run other than the last one of the cache is
\* ever without a stop.
C14_OnlyLastRunWithoutStop ==
    [][/\ (/\ RunStartStep
           /\ engine_result'.ret = "Ok"
           /\ run_cache # <<>>
           /\ ~ has_run_stop(back(run_cache)))
            => /\ Len(run_cache') = Len(run_cache) + 1
               /\ has_run_stop(run_cache'[Len(run_cache)])
               /\ run_cache'[Len(run_cache)].parameters.run_stop_parameters[1].collect_until
                     = engine_result'.arg.start_time
               /\ back(run_cache').parameters.run_name = engine_result'.arg.run_name
       /\ \A i \in DOMAIN run_cache' :
             i < Len(run_cache') => has_run_stop(run_cache'[i])]_vars

\* C15: a RunStop whose stop time is less than or equal to the collect_from of the last
\* run, which has no stop, returns StopTimeEarlierThanStartTime and leaves the run
\* without a stop and the file as it was; a RunStop with a later stop time applied to a
\* run without a stop (also after such a refusal) sets collect_until to that stop time.
C15_EarlyStopIsRefused ==
    [][(RunStopStep /\ run_cache # <<>> /\ ~ has_run_stop(back(run_cache)))
          => IF engine_result'.arg.stop_time <= back(run_cache).parameters.collect_from
             THEN /\ engine_result'.ret = "StopTimeEarlierThanStartTime"
                  /\ run_cache' = run_cache
                  /\ files' = files
             ELSE /\ engine_result'.ret \in {"Ok", "HDF5"}
                  /\ Len(run_cache') = Len(run_cache)
                  /\ has_run_stop(back(run_cache'))
                  /\ back(run_cache').parameters.run_stop_parameters[1].collect_until
                        = engine_result'.arg.stop_time]_vars

\* a RunStop with a stop time equal to the start was refused and the run has no stop
C15_Witness ==
    /\ engine_result.op = "push_run_stop"
    /\ engine_result.ret = "StopTimeEarlierThanStartTime"
    /\ run_cache # <<>>
    /\ ~ has_run_stop(back(run_cache))
    /\ engine_result.arg.stop_time = back(run_cache).parameters.collect_from

\* the step is a call of push_frame_event_list
FrameStep == engine_result'.op = "push_frame_event_list" /\ messages' = messages + 1

\* collect_from < t and (no stop is set or t < collect_until)
AcceptsFrame(run, t) ==
    /\ run.parameters.collect_from < t
    /\ \/ run.parameters.run_stop_parameters = None
       \/ t < run.parameters.run_stop_parameters[1].collect_until

\* the file of the run
FileOf(fs, run) == fs[run.file.id]

\* C16: push_frame_event_list writes a frame with timestamp t into the first run of the
\* cache with collect_from < t and (no stop or t < collect_until), both strict, and into
\* no other run; when no run satisfies the test it returns Ok and modifies no run and
\* no file.
C16_FrameGoesToFirstRunInRange ==
    [][FrameStep =>
          LET t == engine_result'.arg.metadata.timestamp
              valid == { i \in DOMAIN run_cache : AcceptsFrame(run_cache[i], t) }
              first == CHOOSE i \in valid : \A j \in valid : i <= j
          IN  /\ Len(run_cache') = Len(run_cache)
              /\ Len(files') = Len(files)
              /\ IF valid = {}
                 THEN /\ engine_result'.ret = "Ok"
                      /\ run_cache' = run_cache
                      /\ files' = files
                 ELSE /\ \A j \in DOMAIN run_cache \ {first} :
                            /\ run_cache'[j] = run_cache[j]
                            /\ FileOf(files', run_cache[j]) = FileOf(files, run_cache[j])
                      /\ Len(FileOf(files', run_cache[first]).event_index)
                            = Len(FileOf(files, run_cache[first]).event_index) + 1
                      /\ engine_result'.ret = "Ok"
                            => /\ FileOf(files', run_cache[first]).event_time_zero
                                    = Append(FileOf(files, run_cache[first]).event_time_zero,
                                             t - run_cache[first].parameters.collect_from)
                               /\ run_cache'[first].file.num_messages
                                    = run_cache[first].file.num_messages + 1]_vars

\* two runs accept the timestamp of the frame; it was written into the first one only
C16_Witness ==
    /\ engine_result.op = "push_frame_event_list"
    /\ engine_result.ret = "Ok"
    /\ Len(run_cache) = 2
    /\ AcceptsFrame(run_cache[1], engine_result.arg.metadata.timestamp)
    /\ AcceptsFrame(run_cache[2], engine_result.arg.metadata.timestamp)
    /\ Len(FileOf(files, run_cache[1]).event_time_zero) = 1
    /\ Len(FileOf(files, run_cache[2]).event_index) = 0

\* the step is a call of flush
FlushStep == engine_result'.op = "flush"

\* the run has a stop and now - last_modified > delay
Completed(run, delay) ==
    /\ run.parameters.run_stop_parameters # None
    /\ utc_now - run.parameters.run_stop_parameters[1].last_modified > delay

\* the runs of the cache that satisfy keep, in cache order
RECURSIVE KeptRuns(_, _)
KeptRuns(cache, delay) ==
    IF cache = <<>> THEN <<>>
    ELSE IF Completed(Head(cache), delay)
         THEN KeptRuns(Tail(cache), delay)
         ELSE <<Head(cache)>> \o KeptRuns(Tail(cache), delay)

\* C17: flush(delay) removes a run from the run cache if and only if the run has a
\* stop and now - last_modified > delay; a run without a stop is never removed, and
\* the runs that stay keep their relative order.
C17_FlushRemovesExactlyCompletedRuns ==
    [][FlushStep => run_cache' = KeptRuns(run_cache, engine_result'.arg)]_vars

\* the same for the calls of flush that return Ok
C17_FlushOkRemovesExactlyCompletedRuns ==
    [][(FlushStep /\ engine_result'.ret # "IO")
          => run_cache' = KeptRuns(run_cache, engine_result'.arg)]_vars

\* the run cache contains a run and the mode is ContinuousOnly
ContinuousOnlyWithRuns(cache, mode) == cache # <<>> /\ mode = "ConitinousOnly"

\* C18: the topic subscription mode follows the run cache: after every successful
\* push_run_start the mode is Full, after every flush that leaves the run cache empty
\* the mode is ContinuousOnly, and the mode is never ContinuousOnly while the run cache
\* contains a run. (Stated for the calls in which subscribing itself does not fail.)
C18_TopicModeFollowsRunCache ==
    [][engine_result'.ret # "Kafka"
          => /\ (RunStartStep /\ engine_result'.ret = "Ok") => topic_mode' = "Full"
             /\ (FlushStep /\ run_cache' = <<>>) => topic_mode' = "ConitinousOnly"
             /\ ~ ContinuousOnlyWithRuns(run_cache, topic_mode)
                   => ~ ContinuousOnlyWithRuns(run_cache', topic_mode')]_vars

\* the same for the calls that return Ok
C18_TopicModeFollowsRunCacheWhenOk ==
    [][engine_result'.ret = "Ok"
          => /\ RunStartStep => topic_mode' = "Full"
             /\ (FlushStep /\ run_cache' = <<>>) => topic_mode' = "ConitinousOnly"
             /\ ~ ContinuousOnlyWithRuns(run_cache, topic_mode)
                   => ~ ContinuousOnlyWithRuns(run_cache', topic_mode')]_vars

\* the step is a restart of the process followed by resume_partial_runs
ResumeStep == engine_result'.op = "resume_partial_runs"

\* the collect_until of the parameters, None when no stop is set
CollectUntil(parameters) ==
    IF parameters.run_stop_parameters = None
    THEN None
    ELSE Some(parameters.run_stop_parameters[1].collect_until)

\* the same run parameters, up to last_modified
SameRunParameters(p, q) ==
    /\ p.collect_from = q.collect_from
    /\ CollectUntil(p) = CollectUntil(q)
    /\ p.run_name = q.run_name
    /\ p.periods = q.periods
    /\ p.file_name = q.file_name

\* C19: a run resumed at startup from its file in the local temporary directory has the
\* same run parameters as before the restart: collect_from, the stop (collect_until or
\* none), run_name, periods and the file name under which the file is stored.
C19_ResumedRunHasSameParameters ==
    [][ResumeStep =>
          \A i \in DOMAIN run_cache :
             \E j \in DOMAIN run_cache' :
                /\ run_cache'[j].file.id = run_cache[i].file.id
                /\ SameRunParameters(run_cache'[j].parameters, run_cache[i].parameters)
                /\ run_cache'[j].parameters.file_name
                      = FileOf(files, run_cache[i]).file_name]_vars

\* the same for the runs whose RunStart gave the run name as filename and whose file
\* writes all succeeded
C19_ResumedRunHasSameParametersWhenNamedAlike ==
    [][ResumeStep =>
          \A i \in DOMAIN run_cache :
             (/\ run_cache[i].parameters.file_name = run_cache[i].parameters.run_name
              /\ get_datetime(FileOf(files, run_cache[i]).end_time)
                    = CollectUntil(run_cache[i].parameters))
                => \E j \in DOMAIN run_cache' :
                      /\ run_cache'[j].file.id = run_cache[i].file.id
                      /\ SameRunParameters(run_cache'[j].parameters,
                                           run_cache[i].parameters)]_vars
\* ------------------------------------------------------------------------
\* C20
\* ------------------------------------------------------------------------
RECURSIVE SumTo(_, _)
\* the sum of the first n entries of the sequence counts
SumTo(counts, n) == IF n = 0 THEN 0 ELSE SumTo(counts, n - 1) + counts[n]

\* s is a prefix of t
IsPrefix(s, t) == Len(s) <= Len(t) /\ \A i \in DOMAIN s : s[i] = t[i]

\* the event datasets of file hold exactly the frames of counts, in order
EventIndexConsistent(file, counts) ==
    /\ Len(file.event_index) = Len(counts)
    /\ \A i \in DOMAIN file.event_index : file.event_index[i] = SumTo(counts, i - 1)
    /\ Len(file.event_time_offset) = SumTo(counts, Len(counts))
    /\ Len(file.event_id) = SumTo(counts, Len(counts))
    /\ Len(file.pulse_height) = SumTo(counts, Len(counts))

\* no event dataset of file shrinks or changes an entry on the way to after
EventDataAppendOnly(file, after) ==
    /\ IsPrefix(file.event_index, after.event_index)
    /\ IsPrefix(file.event_time_offset, after.event_time_offset)
    /\ IsPrefix(file.event_id, after.event_id)
    /\ IsPrefix(file.pulse_height, after.pulse_height)

\* C20: a step only appends to the event datasets of a file, and a file whose frame
\* event lists were all written with Ok keeps, after one more is written with Ok,
\* one event_index entry per frame, event_index[i] equal to the number of events of
\* the frames before frame i, and as many entries in event_time_offset, event_id and
\* pulse_height as events were written; a file just created holds no frame.
C20_EventIndexIsCumulative ==
    [][ /\ \A k \in DOMAIN files : EventDataAppendOnly(files[k], files'[k])
        /\ \A k \in DOMAIN files' :
              (k \in DOMAIN files =>
                   /\ EventIndexConsistent(files[k], written[k])
                   /\ engine_result'.ret = "Ok")
              => EventIndexConsistent(files'[k], written'[k]) ]_vars

\* two frames with events written to one file
C20_Witness ==
    \E k \in DOMAIN files :
        /\ Len(written[k]) = 2 /\ written[k][1] > 0 /\ written[k][2] > 0
        /\ EventIndexConsistent(files[k], written[k])

\* ------------------------------------------------------------------------
\* C21
\* ------------------------------------------------------------------------
\* the per-frame and per-event datasets of file are those of after
SameEventDatasets(file, after) ==
    /\ file.event_index = after.event_index
    /\ file.event_time_zero = after.event_time_zero
    /\ file.period_number = after.period_number
    /\ file.frame_number = after.frame_number
    /\ file.frame_complete = after.frame_complete
    /\ file.running = after.running
    /\ file.veto_flags = after.veto_flags
    /\ file.pulse_height = after.pulse_height
    /\ file.event_time_offset = after.event_time_offset
    /\ file.event_id = after.event_id

\* C21: a frame event list whose write returns an error leaves the per-frame and
\* per-event datasets of every file as they were, and every file still has one
\* event_index entry per frame written with Ok, each the event count before it.
C21_FailedWriteIsDiscardedWhole ==
    [][ (FrameStep /\ engine_result'.ret # "Ok")
        => \A k \in DOMAIN files :
              /\ SameEventDatasets(files[k], files'[k])
              /\ EventIndexConsistent(files[k], written[k])
                 => EventIndexConsistent(files'[k], written'[k]) ]_vars

\* ------------------------------------------------------------------------
\* C22
\* ------------------------------------------------------------------------
\* C22: main of the NeXus writer leaves its loop only in the step that handles the
\* interrupt; after a message or a flush, whatever they return, it is in the loop
\* (stated for the steps that meet no Kafka error).
C22_LoopEndsOnlyOnInterrupt ==
    [][ (main = "loop" /\ main' # "loop" /\ engine_result'.ret # "Kafka")
        => engine_result'.op = "close_all" ]_vars

\* C22 for the messages alone: whatever handling a message returns, main stays in
\* the loop
C22_MessageErrorKeepsLoop ==
    [][ (main = "loop" /\ messages' = messages + 1) => main' = "loop" ]_vars

\* ------------------------------------------------------------------------
\* C23
\* ------------------------------------------------------------------------
\* how often frame occurs in the sequence of frames
Count(frame, sequence) == Cardinality({ i \in DOMAIN sequence : sequence[i] = frame })

\* the producer task has closed the channel, has been handed every frame that was
\* in the channel when the interrupt arrived exactly once, and has terminated
ProducerDrainedAndTerminated ==
    /\ channel_closed
    /\ producer_task = "terminated"
    /\ \A i \in DOMAIN channel_at_interrupt[1] :
          Count(channel_at_interrupt[1][i], produced) = 1

\* C23: once main of the aggregator has returned after an interrupt, the channel
\* has been closed, every frame that was in the channel when the interrupt arrived
\* has been handed to the Kafka producer exactly once and the producer task has
\* terminated.
C23_MainReturnsAfterProducerDrained ==
    (~alive /\ channel_at_interrupt # None) => ProducerDrainedAndTerminated

\* C23 for the return through the sigint arm of main
C23_SigintArmReturnsAfterProducerDrained ==
    aggregator_main = "returned" => ProducerDrainedAndTerminated

\* ------------------------------------------------------------------------
\* C24
\* ------------------------------------------------------------------------
\* the frame that main is dispatching in this step: the one cache_poll holds while
\* it waits, or the one that cache.poll() returns in this step
FrameAtHand ==
    IF aggregator_main = "reserve" THEN pending
    ELSE IF aggregator_main = "cache_poll" /\ PollSomeStep
         THEN result'.out
         ELSE None

FramesWaiting == Len(frame_channel) + Len(pending)

SignalStep == Len(trace') = Len(trace) + 1 /\ trace # <<>>

\* the time and the derivative of the sample fed in the step
StepTime == sample_at(Len(trace))

StepDerivative == trace'[Len(trace')] - trace[Len(trace)]

\* the number of events emitted in the step
StepEvents == Len(events') - Len(events)

\* C26: a sample fed while a crossing is recorded emits exactly one event when its
\* derivative is <= 0 and the time since the crossing is at least the duration,
\* and none otherwise; a sample fed while no crossing is recorded emits none; and
\* finish emits at most one event.
C26_OneEventPerCycleHeldForDuration ==
    [][ /\ (SignalStep /\ detector.time_crossed # None) =>
              StepEvents = IF /\ StepDerivative <= 0
                              /\ StepTime - detector.time_crossed[1] >= detector.trigger.duration
                           THEN 1 ELSE 0
        /\ (SignalStep /\ detector.time_crossed = None) => StepEvents = 0
        /\ StepEvents \in {0, 1} ]_vars

\* C26 for a duration of at least one sample that is a multiple of the sample time
C26_OneEventPerCycleWhenDurationIsHit ==
    [][ (/\ SignalStep
         /\ detector.time_crossed # None
         /\ detector.trigger.duration > 0
         /\ detector.trigger.duration % sample_time = 0) =>
              StepEvents = IF /\ StepDerivative <= 0
                              /\ StepTime - detector.time_crossed[1] >= detector.trigger.duration
                           THEN 1 ELSE 0 ]_vars

\* C26 for a duration of at least one nanosecond
C26_OneEventPerCycleWhenDurationIsPositive ==
    [][ (/\ SignalStep
         /\ detector.time_crossed # None
         /\ detector.trigger.duration > 0) =>
              StepEvents = IF /\ StepDerivative <= 0
                              /\ StepTime - detector.time_crossed[1] >= detector.trigger.duration
                           THEN 1 ELSE 0 ]_vars

\* ------------------------------------------------------------------------
\* C27
\* ------------------------------------------------------------------------
\* the greatest element of a set of numbers
MaxOf(S) == CHOOSE m \in S : \A x \in S : x <= m

\* the least element of a set of numbers
MinOf(S) == CHOOSE m \in S : \A x \in S : m <= x

\* the trace value and the derivative of the sample of index i (from 0) of a trace
RawAt(tr, i) == tr[i + 1]

DerivativeAt(tr, i) == tr[i + 1] - tr[i]

\* the indices of the samples of the cycle that is open before the step: from the
\* sample of the crossing to the last sample read
CycleIndices == (detector.time_crossed[1] \div sample_time) .. (Len(trace') - 1)

\* the greatest derivative and the greatest trace value of the cycle
CycleMaxDerivative == MaxOf({DerivativeAt(trace', i) : i \in CycleIndices})

CycleMaxRaw == MaxOf({RawAt(trace', i) : i \in CycleIndices})

\* the first sample of the cycle that has the greatest derivative
CycleSteepest == MinOf({i \in CycleIndices : DerivativeAt(trace', i) = CycleMaxDerivative})

\* the event emitted in the step
EmittedEvent == events'[Len(events')]

\* C27 as stated: the pulse height of an emitted event is the greatest derivative
\* of the cycle multiplied by constant_multiple when it is set, and the greatest
\* trace value of the cycle otherwise.
C27_PulseHeightScalesMaxDerivative ==
    [][ StepEvents = 1 =>
          EmittedEvent.pulse_height =
              IF detector.constant_multiple # None
              THEN CycleMaxDerivative * detector.constant_multiple[1]
              ELSE CycleMaxRaw ]_vars

\* C27 amended: the pulse height of an emitted event is, when constant_multiple is
\* set, the trace value of the first sample of the cycle that has the greatest
\* derivative multiplied by constant_multiple, and the greatest trace value of
\* the cycle otherwise.
C27_PulseHeightScalesRisingEdgeValue ==
    [][ StepEvents = 1 =>
          EmittedEvent.pulse_height =
              IF detector.constant_multiple # None
              THEN RawAt(trace', CycleSteepest) * detector.constant_multiple[1]
              ELSE CycleMaxRaw ]_vars

\* an event of a detector with a constant multiple of 2 whose cycle rose from 1 to
\* 3: the pulse height is 6, not 4
C27_Witness ==
    /\ detector # None
    /\ "constant_multiple" \in DOMAIN detector
    /\ detector.constant_multiple = Some(2)
    /\ Len(trace) >= 3
    /\ trace[1] = 1
    /\ trace[2] = 3
    /\ events # <<>>
    /\ events[1].pulse_height = 6

\* an event of a detector without a constant multiple whose pulse height is the
\* greatest trace value of the cycle and not the value at the crossing
C27_WitnessNoMultiple ==
    /\ detector # None
    /\ "constant_multiple" \in DOMAIN detector
    /\ detector.constant_multiple = None
    /\ Len(trace) >= 4
    /\ trace[1] = 0
    /\ trace[2] = 1
    /\ trace[3] = 3
    /\ events # <<>>
    /\ events[1].pulse_height = 3

C29_EventTimesStrictlyIncrease ==
    \A i, j \in DOMAIN events : i < j => events[i].time < events[j].time

\* a differential-threshold detector whose second event was emitted by finish
C29_Witness ==
    /\ detector # None
    /\ "time_crossed" \in DOMAIN detector
    /\ finished
    /\ trace = <<0, 1, 0, 1, 3>>
    /\ Len(events) = 2
    /\ events[1].time = 1
    /\ events[2].time = 3

\* a fixed-threshold detector that has emitted two events
C29_WitnessFixed ==
    /\ detector # None
    /\ "state" \in DOMAIN detector
    /\ Len(events) = 2

\* ------------------------------------------------------------------------
\* C30
\* ------------------------------------------------------------------------
\* the step feeds a sample to a fixed-threshold detector
ThresholdSignalStep ==
    /\ detector # None
    /\ "state" \in DOMAIN detector
    /\ Len(trace') = Len(trace) + 1

\* the indices (from 0) of the samples read since the signal entered the crossing
HeldIndices == (detector.entered_at \div sample_time) .. (Len(trace) - 1)

\* the event of the crossing that is held before the step: the time the signal
\* entered the crossing and the greatest value of the hold
HeldEvent ==
    [time |-> sample_at(detector.entered_at \div sample_time),
     pulse_height |-> MaxOf({RawAt(trace, i) : i \in HeldIndices})]

\* the indices (from 0) of the first duration samples of the crossing
DurationIndices ==
    LET entered == detector.entered_at \div sample_time
    IN  entered .. (entered + detector.trigger.duration - 1)

\* a sample fed to a detector that holds a crossing: the samples of the hold are
\* all at or above the threshold; the step emits the event of the crossing or
\* nothing; it emits the event when the hold has at least duration samples, and
\* only when the trace has duration samples from the crossing on and all of them
\* are at or above the threshold; when it emits nothing the crossing is given up
\* exactly when the sample is below the threshold. A sample fed to a detector
\* that holds no crossing emits nothing.
HoldDecidesEvent ==
    ThresholdSignalStep =>
        IF detector.state = "CrossingHeld"
        THEN /\ \A i \in HeldIndices : RawAt(trace, i) >= detector.trigger.threshold
             /\ events' \in {events, Append(events, HeldEvent)}
             /\ Cardinality(HeldIndices) >= detector.trigger.duration => events' # events
             /\ events' # events =>
                    \A i \in DurationIndices :
                        /\ i < Len(trace')
                        /\ RawAt(trace', i) >= detector.trigger.threshold
             /\ events' = events =>
                    (detector'.state = "Armed" <=>
                        trace'[Len(trace')] < detector.trigger.threshold)
        ELSE events' = events

\* the events of the trace of the test
ExampleEvents ==
    (/\ detector # None
     /\ "state" \in DOMAIN detector
     /\ detector.trigger = ExampleTrigger
     /\ sample_time = 1
     /\ trace = ExampleTrace) =>
        events = <<[time |-> 8, pulse_height |-> 8], [time |-> 11, pulse_height |-> 8]>>

\* C30: in fixed-threshold mode a crossing produces an event if and only if the
\* signal stays at or above the threshold for at least duration samples, the time
\* of the event is the time the signal entered the crossing and its intensity the
\* greatest value of the hold; the trace of the test with threshold 5, duration 1
\* and cool_off 0 gives exactly the events (8, 8) and (11, 8).
C30_HoldOfDurationSamplesDecidesEvent ==
    /\ []ExampleEvents
    /\ [][HoldDecidesEvent]_vars

\* C30 at a sample time of one nanosecond
C30_HoldDecidesEventAtOneNanosecond ==
    /\ []ExampleEvents
    /\ [][sample_time = 1 => HoldDecidesEvent]_vars

\* the trace of the test has been read to its end and its two events emitted
C30_ExampleRead ==
    /\ detector # None
    /\ "state" \in DOMAIN detector
    /\ detector.trigger = ExampleTrigger
    /\ sample_time = 1
    /\ trace = ExampleTrace
    /\ finished
    /\ Len(events) = 2

\* ------------------------------------------------------------------------
\* C31
\* ------------------------------------------------------------------------
\* n!
RECURSIVE Factorial(_)
Factorial(n) == IF n <= 0 THEN 1 ELSE n * Factorial(n - 1)

\* C(k, j)
Choose(k, j) == Factorial(k) \div (Factorial(j) * Factorial(k - j))

\* the sum over j = 0..k of (-1)^j * C(k, j) * x[t - j] for the inputs x, t being
\* the latest
RECURSIVE DifferenceSum(_, _, _)
DifferenceSum(x, k, j) ==
    IF j < 0 THEN 0
    ELSE (IF j % 2 = 1 THEN -1 ELSE 1) * Choose(k, j) * x[Len(x) - j]
         + DifferenceSum(x, k, j - 1)

\* the step pushes a value into the window
WindowPushStep == Len(inputs') = Len(inputs) + 1

\* C31: a push returns false for the first N - 1 inputs and true for every later
\* input, and after a push that returned true element k of the output is the sum
\* over j = 0..k of (-1)^j * C(k, j) * x[t - j].
C31_FiniteDifferencesAreBinomialSums ==
    [][ WindowPushStep =>
          /\ pushed' = Some(Len(inputs') >= window.N)
          /\ pushed' = Some(TRUE) =>
                /\ output(window') # None
                /\ Len(output(window')[1]) = window.N
                /\ \A k \in 0..(window.N - 1) :
                      output(window')[1][k + 1] = DifferenceSum(inputs', k, k) ]_vars

\* the window of order 3 after the inputs 0, 1, 3: the output is 3, 2, 1
C31_Witness ==
    /\ window # None
    /\ window.N = 3
    /\ inputs = <<0, 1, 3>>
    /\ pushed = Some(TRUE)
    /\ window.diffs = <<3, 2, 1>>

\* ------------------------------------------------------------------------
\* C35
\* ------------------------------------------------------------------------
\* C35: output returns a value if and only if the most recent push returned
\* true; before any push and after a push that returned false it returns None.
C35_OutputOnlyAfterTruePush ==
    (window # None /\ yielded # None) =>
        (yielded[1] # None <=> pushed = Some(TRUE))

\* C35 for a window that has left its warm-up or is more than one value short
\* of leaving it
C35_OutputNoneEarlyInWarmUp ==
    (window # None /\ yielded # None /\ Len(inputs) # window.N - 1) =>
        (yielded[1] # None <=> pushed = Some(TRUE))

\* output has returned the initial diffs after the last push of the warm-up
C35_OutputInWarmUp ==
    /\ window # None
    /\ window.N = 2
    /\ inputs = <<3>>
    /\ pushed = Some(FALSE)
    /\ yielded = Some(Some(<<0, 0>>))

\* ------------------------------------------------------------------------
\* C32
\* ------------------------------------------------------------------------
\* the events of the k-th channel of the trace message
ChannelEvents(k) == find_channel_events(trace_message[1].channels[k].voltage)

\* the number of events of the channels before the k-th
RECURSIVE EventsBefore(_)
EventsBefore(k) ==
    IF k <= 1 THEN 0 ELSE EventsBefore(k - 1) + Len(ChannelEvents(k - 1).time)

\* C32: whatever the order in which the workers of the channels finished, the
\* event list has the events of each channel in one block, the blocks in the order
\* of the channels of the trace message, time, voltage and channel vectors of the
\* same length, and the metadata of the trace message.
C32_EventListIndependentOfScheduling ==
    event_message # None =>
        LET out == event_message[1]
            message == trace_message[1]
            n == Len(message.channels)
        IN  /\ Len(out.time) = EventsBefore(n + 1)
            /\ Len(out.voltage) = Len(out.time)
            /\ Len(out.channel) = Len(out.time)
            /\ out.metadata = message.metadata
            /\ out.digitizer_id = message.digitizer_id
            /\ \A k \in 1..n : \A j \in 1..Len(ChannelEvents(k).time) :
                  /\ out.channel[EventsBefore(k) + j] = message.channels[k].channel
                  /\ out.time[EventsBefore(k) + j] = ChannelEvents(k).time[j]
                  /\ out.voltage[EventsBefore(k) + j] = ChannelEvents(k).voltage[j]

\* the event list of a message of two channels with events whose second worker
\* finished first
C32_Witness ==
    /\ event_message # None
    /\ completed = <<2, 1>>
    /\ trace_message[1].channels[1] = [channel |-> 7, voltage |-> <<0, 3, 0, 3, 1>>]
    /\ trace_message[1].channels[2] = [channel |-> 0, voltage |-> <<0, 3, 0>>]
    /\ event_message[1].channel = <<7, 7, 0>>
    /\ event_message[1].time = <<1, 3, 1>>

\* ------------------------------------------------------------------------
\* C33
\* ------------------------------------------------------------------------
\* main is inside cache_poll
InCachePoll == aggregator_main \in {"cache_poll", "reserve"}

\* every digitiser message, whether its push is accepted or rejected, takes main
\* into cache_poll; while main is in cache_poll no other message is pushed; and
\* main comes back to its select from cache_poll only when poll has returned None
PollsUntilNone ==
    /\ pushes' = pushes + 1 =>
          (aggregator_main = "select" /\ aggregator_main' = "cache_poll")
    /\ InCachePoll => pushes' = pushes
    /\ (InCachePoll /\ aggregator_main' = "select") =>
          (result'.op = "poll" /\ result'.ret = "None")

\* C33: for every digitiser message, accepted or rejected, main polls the cache
\* until poll returns None before it handles the next input, and when it comes
\* back to its select the front partial frame of the cache is not complete: it
\* lacks an expected digitiser.
C33_HandledMessageLeavesNoCompleteFront ==
    [][ /\ PollsUntilNone
        /\ (InCachePoll /\ aggregator_main' = "select") =>
              (frames' = <<>> \/ digitiser_ids(Head(frames')) # expected_digitisers) ]_vars

\* C33 with "complete" read as the flag that poll tests
C33_PollsUntilNoneAfterEveryMessage ==
    [][ /\ PollsUntilNone
        /\ (InCachePoll /\ aggregator_main' = "select") =>
              (frames' = <<>> \/ ~is_complete(Head(frames'))) ]_vars

\* the third message completed the frame of timestamp 1, which was sent, and poll
\* then returned None with the incomplete frame of timestamp 2 at the front
C33_Witness ==
    /\ aggregator_main = "select"
    /\ pushes = 3
    /\ result.op = "poll"
    /\ result.ret = "None"
    /\ frames # <<>>
    /\ ~is_complete(Head(frames))
    /\ \E k \in DOMAIN dispatched : dispatched[k] = 1
    /\ \E sent \in {frame_channel, produced} :
          \E k \in DOMAIN sent : sent[k].complete /\ sent[k].metadata.timestamp = 1

\* a rejected message was followed by the polling of the cache
C33_WitnessRejected ==
    /\ aggregator_main = "select"
    /\ result.op = "poll"
    /\ result.ret = "None"
    /\ pushes = 2
    /\ Cardinality(accepted) = 1

\* ------------------------------------------------------------------------
\* C37
\* ------------------------------------------------------------------------
\* the aggregated frames placed on the producer channel so far
Placed == produced \o frame_channel

\* the number of frames of timestamp t in a sequence of aggregated frames
FramesOf(t, sequence) ==
    Cardinality({ i \in DOMAIN sequence : sequence[i].metadata.timestamp = t })

\* the number of polls that returned a frame of timestamp t
PolledOf(t) == Cardinality({ i \in DOMAIN dispatched : dispatched[i] = t })

\* the accepted contributions that wait in the cache for the frame of timestamp t
Waiting(t) ==
    UNION { {contributions[k][i] : i \in DOMAIN contributions[k]} :
            k \in {key \in KeySet : key.timestamp = t} }

\* a frame returned by poll carries the digitisers of the contributions accepted
\* into it, each once, and takes them out of the cache
PollTakesContributions ==
    PollSomeStep =>
        LET out == result'.out[1]
            key == FrameKey(out.metadata)
        IN  /\ Len(out.digitiser_ids) = Len(contributions[key])
            /\ {out.digitiser_ids[i] : i \in DOMAIN out.digitiser_ids}
                 = {contributions[key][i].digitiser_id : i \in DOMAIN contributions[key]}
            /\ contributions'[key] = <<>>

\* every frame returned by poll is in the hand of cache_poll or placed on the
\* channel, once
PolledFramesPlacedOnce ==
    \A t \in 1..MaxTimestamp :
        FramesOf(t, Placed) + FramesOf(t, pending) = PolledOf(t)

\* the contributions waiting for the frame of timestamp t are taken by one more
\* poll and that frame is placed on the channel
ContributionsLeadToPlacedFrame ==
    \A t \in 1..MaxTimestamp : \A n \in 0..MaxPushes :
        (Waiting(t) # {} /\ PolledOf(t) = n)
            ~> (Waiting(t) = {} /\ FramesOf(t, Placed) > n)

\* C37: while the poll interval keeps firing and the producer task keeps draining
\* the channel, the contributions accepted into a partial frame are eventually
\* taken by one poll into one aggregated frame that is placed on the channel; a
\* frame returned by poll is placed once.
C37_AcceptedContributionsAreEventuallySent ==
    /\ [][PollTakesContributions]_vars
    /\ []PolledFramesPlacedOnce
    /\ ContributionsLeadToPlacedFrame

\* an incomplete frame that expired in the cache has been produced
C37_Witness ==
    /\ produced # <<>>
    /\ ~produced[1].complete
    /\ Len(produced[1].digitiser_ids) = 1
    /\ contributions[FrameKey(produced[1].metadata)] = <<>>
    /\ frames = <<>>

\* ------------------------------------------------------------------------
\* C38
\* ------------------------------------------------------------------------
\* C38: in every interleaving of main and the producer task after an interrupt,
\* main returns Ok: it never ends with the error of a frame that was removed from
\* the cache and could not be sent because the channel was already closed.
C38_MainNeverFailsToSend ==
    aggregator_main # "failed"

\* ------------------------------------------------------------------------
\* C39
\* ------------------------------------------------------------------------
\* every run of the cache that has not completed is in the cache after the step
NotCompletedRunsStay(delay) ==
    \A i \in DOMAIN run_cache :
        ~ Completed(run_cache[i], delay)
            => \E j \in DOMAIN run_cache' : run_cache'[j] = run_cache[i]

\* C39: flush removes from the run cache only runs that have completed: when the
\* move or the close of a completed run fails and flush returns an error, every
\* run that has not completed is still in the run cache afterwards.
C39_FailedFlushKeepsNotCompletedRuns ==
    [][(FlushStep /\ engine_result'.ret = "IO")
          => NotCompletedRunsStay(engine_result'.arg)]_vars

\* the same for the calls of flush in which no move fails
C39_FlushKeepsNotCompletedRunsWhenNoMoveFails ==
    [][(FlushStep /\ engine_result'.ret # "IO")
          => NotCompletedRunsStay(engine_result'.arg)]_vars

\* ------------------------------------------------------------------------
\* C40
\* ------------------------------------------------------------------------
\* the run has a stop that is later than its start
StopsAfterStart(run) ==
    has_run_stop(run)
        => run.parameters.collect_from < run.parameters.run_stop_parameters[1].collect_until

\* C40: every run in the run cache that has a stop set satisfies
\* collect_from < collect_until, whether the stop was set by a RunStop or by the
\* abort on a following RunStart.
C40_StopIsAfterStart ==
    \A i \in DOMAIN run_cache : StopsAfterStart(run_cache[i])

\* the same for the stops set by a RunStop: the run that a successful
\* push_run_stop gave its stop
C40_RunStopIsAfterStart ==
    [][(engine_result'.op = "push_run_stop" /\ engine_result'.ret = "Ok")
          => StopsAfterStart(run_cache'[Len(run_cache')])]_vars

\* ------------------------------------------------------------------------
\* C34
\* ------------------------------------------------------------------------
\* the runs of the cache whose range contains the timestamp
RunsContaining(t) ==
    { i \in DOMAIN run_cache :
         is_message_timestamp_within_range(run_cache[i].parameters, t) }

\* C34: for any timestamp at most one run in the run cache contains it
\* (collect_from < t < collect_until, or no stop), so the run found by
\* find_run_containing is the only run of the cache that matches.
C34_AtMostOneRunContainsTimestamp ==
    \A t \in TimeSet :
        /\ Cardinality(RunsContaining(t)) <= 1
        /\ find_run_containing(t) # 0 => RunsContaining(t) = {find_run_containing(t)}

\* the same while every run start is later than the starts and stops of the
\* runs in the cache: the step keeps the ranges of the runs apart
C34_LaterRunStartsKeepRunsApart ==
    [][(/\ C34_AtMostOneRunContainsTimestamp
        /\ engine_result'.op = "push_run_start" =>
               \A i \in DOMAIN run_cache :
                  /\ run_cache[i].parameters.collect_from <= engine_result'.arg.start_time
                  /\ has_run_stop(run_cache[i]) =>
                         run_cache[i].parameters.run_stop_parameters[1].collect_until
                             <= engine_result'.arg.start_time)
          => C34_AtMostOneRunContainsTimestamp']_vars

\* ------------------------------------------------------------------------
\* C36
\* ------------------------------------------------------------------------
\* the step is a push_run_start that aborted the back run of the cache
AbortStep ==
    /\ engine_result'.op = "push_run_start"
    /\ run_cache # <<>>
    /\ ~ has_run_stop(run_cache[Len(run_cache)])
    /\ has_run_stop(run_cache'[Len(run_cache)])
    /\ Len(FileOf(files', run_cache[Len(run_cache)]).run_log_time) = 1

\* the time the abort appended to the log of the aborted run
AbortLogTime == FileOf(files', run_cache[Len(run_cache)]).run_log_time[1]

\* the aborted run after the step
AbortedRun == run_cache'[Len(run_cache)].parameters

\* C36: the time recorded in the run log for a synthesised abort equals the
\* stop time of the abort minus the start time of the run, expressed in seconds.
C36_AbortLogTimeIsStopMinusStart ==
    [][AbortStep =>
          /\ AbortLogTime.denominator = NanosPerSecond
          /\ AbortLogTime.numerator =
                 timestamp_nanos_opt(AbortedRun.run_stop_parameters[1].collect_until)
                     - timestamp_nanos_opt(AbortedRun.collect_from)]_vars

\* the same for the runs that started at the epoch
C36_AbortLogTimeOfRunStartedAtEpoch ==
    [][(AbortStep /\ AbortedRun.collect_from = 0) =>
          /\ AbortLogTime.denominator = NanosPerSecond
          /\ AbortLogTime.numerator =
                 timestamp_nanos_opt(AbortedRun.run_stop_parameters[1].collect_until)]_vars

\* a run that started at 1 ms was aborted at 2 ms and a time is in its log
C36_AbortLogged ==
    /\ Len(run_cache) = 2
    /\ run_cache[1].parameters.collect_from = 1
    /\ run_cache[1].parameters.run_stop_parameters # None
    /\ run_cache[1].parameters.run_stop_parameters[1].collect_until = 2
    /\ Len(FileOf(files, run_cache[1]).run_log_time) = 1

====
